---- MODULE Spec2Model ----
(***************************************************************************)
(* Model of RayTracer-Rust.  The CPU pipeline: scene primitives and their  *)
(* intersection routines (config/shape.rs), BVH construction and candidate *)
(* traversal as used by RayTracer::new / find_color_recursive, the shader  *)
(* and the row-parallel render driver (raytracer.rs); the scene-file       *)
(* loader (config/config_builder.rs); the image comparator                 *)
(* (imgcomparator/mod.rs); and the two GPU drivers (gpu_backend.rs,        *)
(* gpu_renderer.rs).                                                       *)
(*                                                                         *)
(* Numbers.  f32 scalars are modelled in fixed point: the integer n stands *)
(* for the real n / ONE.  Products, quotients and square roots round to    *)
(* the nearest representable value, as f32 operations do (at a coarser     *)
(* resolution).  On lattice points (multiples of ONE) and axis-aligned     *)
(* unit directions every operation below is exact.  EPS, the code's 1e-6,  *)
(* is the smallest positive representable increment.                       *)
(***************************************************************************)
EXTENDS Integers, Sequences, FiniteSets

VARIABLES pc, config, bvh, built_from, image_data, row_x, writes, traces,
          prev_image, probe,
          parsed_config, line_no, line_read, result, loaded,
          img1, img2, compared, codec,
          gpu

\* the loader's variables
loader_vars == <<parsed_config, line_no, line_read, result, loaded>>

\* the image comparator's variables
image_vars == <<img1, img2, compared, codec>>

\* the renderer's variables
render_vars == <<pc, config, bvh, built_from, image_data, row_x, writes, traces,
                 prev_image, probe>>

vars == <<render_vars, loader_vars, image_vars, gpu>>

-----------------------------------------------------------------------------
(* Fixed-point scalar kernel *)

\* the fixed-point image of 1.0
ONE == 16

\* the fixed-point image of 1e-6, the offset of shadow and reflection rays
EPS == 1

\* the fixed-point image of 1e10, half the side of a plane's bounding cube
PLANE_AABB_SIZE == 16000

Abs(n) == IF n < 0 THEN -n ELSE n

Sign(n) == IF n < 0 THEN -1 ELSE IF n > 0 THEN 1 ELSE 0

Max2(a, b) == IF a >= b THEN a ELSE b

Min2(a, b) == IF a <= b THEN a ELSE b

\* n / d rounded to the nearest integer, halves away from zero (d # 0)
RoundDiv(n, d) ==
    LET s == Sign(n) * Sign(d)
        an == Abs(n)
        ad == Abs(d)
    IN  s * ((2 * an + ad) \div (2 * ad))

FMul(a, b) == RoundDiv(a * b, ONE)

FDiv(a, b) == RoundDiv(a * ONE, b)

\* largest r in lo..hi with r * r <= n (lo * lo <= n)
RECURSIVE ISqrtIn(_, _, _)
ISqrtIn(n, lo, hi) ==
    IF lo = hi THEN lo
    ELSE LET mid == (lo + hi + 1) \div 2
         IN  IF mid * mid <= n THEN ISqrtIn(n, mid, hi) ELSE ISqrtIn(n, lo, mid - 1)

\* nearest integer to the square root of n >= 0
RSqrt(n) ==
    LET r == ISqrtIn(n, 0, Min2(n, 46340))
    IN  IF n - r * r > r THEN r + 1 ELSE r

FSqrt(a) == RSqrt(a * ONE)

-----------------------------------------------------------------------------
(* Vec3 *)

Vec(x, y, z) == <<x, y, z>>

ZERO == <<0, 0, 0>>

VAdd(a, b) == <<a[1] + b[1], a[2] + b[2], a[3] + b[3]>>

VSub(a, b) == <<a[1] - b[1], a[2] - b[2], a[3] - b[3]>>

VNeg(a) == <<-a[1], -a[2], -a[3]>>

VScale(a, s) == <<FMul(a[1], s), FMul(a[2], s), FMul(a[3], s)>>

ComponentMul(a, b) == <<FMul(a[1], b[1]), FMul(a[2], b[2]), FMul(a[3], b[3])>>

Dot(a, b) == FMul(a[1], b[1]) + FMul(a[2], b[2]) + FMul(a[3], b[3])

Cross(a, b) == <<FMul(a[2], b[3]) - FMul(a[3], b[2]),
                 FMul(a[3], b[1]) - FMul(a[1], b[3]),
                 FMul(a[1], b[2]) - FMul(a[2], b[1])>>

Norm(a) == FSqrt(Dot(a, a))

\* v / |v|.  A zero-length v has no direction (the code yields NaN
\* components); IsNaNVec marks that case and callers apply NaN semantics.
IsNaNVec(v) == Norm(v) = 0

Normalize(v) ==
    LET len == Norm(v)
    IN  IF len = 0 THEN ZERO
        ELSE <<FDiv(v[1], len), FDiv(v[2], len), FDiv(v[3], len)>>

-----------------------------------------------------------------------------
(* Option values: None is the empty sequence, Some(v) a one-element one *)

None == <<>>

Some(v) == <<v>>

IsSome(o) == Len(o) = 1

Unwrap(o) == o[1]

-----------------------------------------------------------------------------
(* config/shape.rs: Shape, Ray, Intersection and the intersect routines *)

Sphere(center, radius, diffuse_color, specular_color, shininess) ==
    [kind |-> "Sphere", center |-> center, radius |-> radius,
     diffuse_color |-> diffuse_color, specular_color |-> specular_color,
     shininess |-> shininess, node_index |-> 0]

Triangle(v0, v1, v2, diffuse_color, specular_color, shininess) ==
    [kind |-> "Triangle", v0 |-> v0, v1 |-> v1, v2 |-> v2,
     diffuse_color |-> diffuse_color, specular_color |-> specular_color,
     shininess |-> shininess, node_index |-> 0]

Plane(point, normal, diffuse_color, specular_color, shininess) ==
    [kind |-> "Plane", point |-> point, normal |-> normal,
     diffuse_color |-> diffuse_color, specular_color |-> specular_color,
     shininess |-> shininess, node_index |-> 0]

Ray(origin, direction) == [origin |-> origin, direction |-> direction]

Intersection(distance, normal, point, shape, is_back_face) ==
    [distance |-> distance, normal |-> normal, point |-> point,
     diffuse_color |-> shape.diffuse_color,
     specular_color |-> shape.specular_color,
     shininess |-> shape.shininess, is_back_face |-> is_back_face]

intersect_sphere(ray, sphere) ==
    LET oc == VSub(ray.origin, sphere.center)
        half_b == Dot(oc, ray.direction)
        c == Dot(oc, oc) - FMul(sphere.radius, sphere.radius)
        discriminant == FMul(half_b, half_b) - c
    IN  IF discriminant < 0 THEN None
        ELSE LET t == -half_b - FSqrt(discriminant)
             IN  IF t < 0 THEN None
                 ELSE LET point == VAdd(ray.origin, VScale(ray.direction, t))
                          normal == Normalize(VSub(point, sphere.center))
                      IN  Some(Intersection(t, normal, point, sphere, FALSE))

intersect_plane(ray, plane) ==
    LET denom == Dot(plane.normal, ray.direction)
    IN  IF Abs(denom) < EPS THEN None
        ELSE LET t == FDiv(Dot(VSub(plane.point, ray.origin), plane.normal), denom)
             IN  IF t < 0 THEN None
                 ELSE LET intersection_point ==
                              VAdd(ray.origin, VScale(ray.direction, t))
                      IN  Some(Intersection(t, plane.normal, intersection_point,
                                            plane, FALSE))

intersect_triangle(ray, triangle) ==
    LET edge1 == VSub(triangle.v1, triangle.v0)
        edge2 == VSub(triangle.v2, triangle.v0)
        h == Cross(ray.direction, edge2)
        a == Dot(edge1, h)
    IN  IF Abs(a) < EPS THEN None
        ELSE LET f == FDiv(ONE, a)
                 s == VSub(ray.origin, triangle.v0)
                 u == FMul(f, Dot(s, h))
             IN  IF u < 0 \/ u > ONE THEN None
                 ELSE LET q == Cross(s, edge1)
                          v == FMul(f, Dot(ray.direction, q))
                      IN  IF v < 0 \/ u + v > ONE THEN None
                          ELSE LET t == FMul(f, Dot(edge2, q))
                               IN  IF t < 0 THEN None
                                   ELSE LET intersection_point ==
                                                VAdd(ray.origin, VScale(ray.direction, t))
                                            normal == Normalize(Cross(edge1, edge2))
                                            is_back_face == Dot(normal, ray.direction) > 0
                                        IN  Some(Intersection(t, normal, intersection_point,
                                                              triangle, is_back_face))

intersect(shape, ray) ==
    CASE shape.kind = "Sphere" -> intersect_sphere(ray, shape)
      [] shape.kind = "Plane" -> intersect_plane(ray, shape)
      [] shape.kind = "Triangle" -> intersect_triangle(ray, shape)

-----------------------------------------------------------------------------
(* config/shape.rs: impl Bounded for Shape, impl BHShape for Shape *)

Aabb(min, max) == [min |-> min, max |-> max]

\* aabb with the triangle's box taken over v0 and v1 only
aabb_TwoVertexTriangle(shape) ==
    CASE shape.kind = "Sphere" ->
            LET half_size == <<shape.radius, shape.radius, shape.radius>>
            IN  Aabb(VSub(shape.center, half_size), VAdd(shape.center, half_size))
      [] shape.kind = "Triangle" ->
            Aabb([i \in 1..3 |-> Min2(shape.v0[i], shape.v1[i])],
                 [i \in 1..3 |-> Max2(shape.v0[i], shape.v1[i])])
      [] shape.kind = "Plane" ->
            Aabb(<<-PLANE_AABB_SIZE, -PLANE_AABB_SIZE, -PLANE_AABB_SIZE>>,
                 <<PLANE_AABB_SIZE, PLANE_AABB_SIZE, PLANE_AABB_SIZE>>)

aabb(shape) ==
    CASE shape.kind = "Sphere" ->
            LET half_size == <<shape.radius, shape.radius, shape.radius>>
            IN  Aabb(VSub(shape.center, half_size), VAdd(shape.center, half_size))
      [] shape.kind = "Triangle" ->
            Aabb([i \in 1..3 |-> Min2(Min2(shape.v0[i], shape.v1[i]), shape.v2[i])],
                 [i \in 1..3 |-> Max2(Max2(shape.v0[i], shape.v1[i]), shape.v2[i])])
      [] shape.kind = "Plane" ->
            Aabb(<<-PLANE_AABB_SIZE, -PLANE_AABB_SIZE, -PLANE_AABB_SIZE>>,
                 <<PLANE_AABB_SIZE, PLANE_AABB_SIZE, PLANE_AABB_SIZE>>)

set_bh_node_index(shape, index) == [shape EXCEPT !.node_index = index]

bh_node_index(shape) == shape.node_index

-----------------------------------------------------------------------------
(* The BVH as RayTracer uses it: Bvh::build_par over the primitive array   *)
(* and Bvh::traverse returning the candidates of a ray.  A node is a leaf  *)
(* holding a primitive index, or an interior node holding the index and    *)
(* the bounding box of each child.                                         *)

JoinAabb(a, b) ==
    Aabb([i \in 1..3 |-> Min2(a.min[i], b.min[i])],
         [i \in 1..3 |-> Max2(a.max[i], b.max[i])])

RECURSIVE JoinAll(_, _)
JoinAll(shapes, indices) ==
    IF Len(indices) = 1 THEN aabb(shapes[indices[1]])
    ELSE JoinAabb(aabb(shapes[indices[1]]), JoinAll(shapes, Tail(indices)))

\* nodes of the subtree over `indices`, the subtree's root stored at `base`
RECURSIVE BuildNodes(_, _, _)
BuildNodes(shapes, indices, base) ==
    IF Len(indices) = 1
    THEN <<[kind |-> "Leaf", shape_index |-> indices[1]]>>
    ELSE LET mid == Len(indices) \div 2
             l == SubSeq(indices, 1, mid)
             r == SubSeq(indices, mid + 1, Len(indices))
             lnodes == BuildNodes(shapes, l, base + 1)
             rnodes == BuildNodes(shapes, r, base + 1 + Len(lnodes))
         IN  <<[kind |-> "Node",
                child_l_index |-> base + 1,
                child_l_aabb |-> JoinAll(shapes, l),
                child_r_index |-> base + 1 + Len(lnodes),
                child_r_aabb |-> JoinAll(shapes, r)]>> \o lnodes \o rnodes

\* `order` is the order in which the builder's splits arrange the primitives
Build(shapes, order) ==
    IF Len(shapes) = 0 THEN <<>> ELSE BuildNodes(shapes, order, 1)

LeafOf(nodes, i) ==
    CHOOSE n \in 1..Len(nodes) :
        nodes[n].kind = "Leaf" /\ nodes[n].shape_index = i

\* the primitive array after the build: every primitive knows its leaf
WithNodeIndices(shapes, nodes) ==
    [i \in 1..Len(shapes) |-> set_bh_node_index(shapes[i], LeafOf(nodes, i))]

\* the ray { origin + t * direction : t >= 0 } meets the closed box
RayIntersectsAabb(ray, box) ==
    LET o == ray.origin
        d == ray.direction
        Moving == {i \in 1..3 : d[i] # 0}
        \* entry and exit parameters on axis i are lo(i)/|d[i]|, hi(i)/|d[i]|
        lo(i) == IF d[i] > 0 THEN box.min[i] - o[i] ELSE o[i] - box.max[i]
        hi(i) == IF d[i] > 0 THEN box.max[i] - o[i] ELSE o[i] - box.min[i]
    IN  /\ \A i \in (1..3) \ Moving : box.min[i] <= o[i] /\ o[i] <= box.max[i]
        /\ \A j \in Moving : hi(j) >= 0
        /\ \A i \in Moving : \A j \in Moving :
               lo(i) * Abs(d[j]) <= hi(j) * Abs(d[i])

RECURSIVE TraverseRecursive(_, _, _)
TraverseRecursive(nodes, node_index, ray) ==
    LET node == nodes[node_index]
    IN  IF node.kind = "Leaf" THEN <<node.shape_index>>
        ELSE (IF RayIntersectsAabb(ray, node.child_l_aabb)
              THEN TraverseRecursive(nodes, node.child_l_index, ray)
              ELSE <<>>)
             \o
             (IF RayIntersectsAabb(ray, node.child_r_aabb)
              THEN TraverseRecursive(nodes, node.child_r_index, ray)
              ELSE <<>>)

\* indices (into shapes) of the candidates, in traversal order
TraverseIndices(nodes, ray) ==
    IF Len(nodes) = 0 THEN <<>> ELSE TraverseRecursive(nodes, 1, ray)

Traverse(nodes, ray, shapes) ==
    LET idx == TraverseIndices(nodes, ray)
    IN  [k \in 1..Len(idx) |-> shapes[idx[k]]]

-----------------------------------------------------------------------------
(* raytracer.rs: the shader, RayTracer::find_color_recursive / find_color *)

PointLight(position, color) ==
    [kind |-> "Point", position |-> position, color |-> color]

DirectionalLight(direction, color) ==
    [kind |-> "Directional", direction |-> direction, color |-> color]

\* x.powf(s) for the shininess values of the scene catalogue (whole numbers)
RECURSIVE FPow(_, _)
FPow(x, s) == IF s < ONE THEN ONE ELSE FMul(x, FPow(x, s - ONE))

\* Iterator::min_by on the distance: the first of the minimal hits
RECURSIVE MinBy(_)
MinBy(hits) ==
    IF Len(hits) = 0 THEN None
    ELSE LET rest == MinBy(Tail(hits))
         IN  IF IsSome(rest) /\ Unwrap(rest).distance < Head(hits).distance
             THEN rest
             ELSE Some(Head(hits))

\* candidates.iter().filter_map(|object| object.intersect(&ray))
RECURSIVE FilterMapIntersect(_, _)
FilterMapIntersect(candidates, ray) ==
    IF Len(candidates) = 0 THEN <<>>
    ELSE intersect(Head(candidates), ray)
         \o FilterMapIntersect(Tail(candidates), ray)

ClosestIntersection(candidates, ray) ==
    MinBy(FilterMapIntersect(candidates, ray))

LightDirVec(light, intersection) ==
    IF light.kind = "Point" THEN VSub(light.position, intersection.point)
    ELSE light.direction

LightDir(light, intersection) ==
    IF light.kind = "Point"
    THEN Normalize(VSub(light.position, intersection.point))
    ELSE light.direction

ShadowRay(light, intersection) ==
    Ray(VAdd(intersection.point, VScale(intersection.normal, EPS)),
        LightDir(light, intersection))

\* Blocks without the comparison against the distance to a point light
Blocks_NoLightDistance(light, intersection, shadow_intersection) ==
    IF shadow_intersection.distance < EPS THEN FALSE
    ELSE IF intersection.is_back_face /\ shadow_intersection.is_back_face THEN FALSE
    ELSE TRUE

\* the closure given to any() over the shadow intersections
Blocks(light, intersection, shadow_intersection) ==
    IF shadow_intersection.distance < EPS THEN FALSE
    ELSE IF intersection.is_back_face /\ shadow_intersection.is_back_face THEN FALSE
    ELSE IF light.kind = "Point"
         THEN shadow_intersection.distance
                  < Norm(VSub(light.position, intersection.point))
         ELSE TRUE

InShadow(cfg, nodes, light, intersection) ==
    \* a point light sitting on the hit point gives a NaN light direction:
    \* every comparison on the NaN shadow distances is false, nothing blocks
    IF light.kind = "Point" /\ IsNaNVec(LightDirVec(light, intersection))
    THEN FALSE
    ELSE LET shadow_ray == ShadowRay(light, intersection)
             shadow_candidates == Traverse(nodes, shadow_ray, cfg.scene_objects)
             hits == FilterMapIntersect(shadow_candidates, shadow_ray)
         IN  \E k \in 1..Len(hits) : Blocks(light, intersection, hits[k])

\* (diffuse + specular).component_mul(&light_color) for a light not in shadow
LightContribution(light, intersection, direction) ==
    IF light.kind = "Point" /\ IsNaNVec(LightDirVec(light, intersection))
    THEN ZERO   \* n_dot_l = NaN.max(0.0) = 0 and the specular factor is 0
    ELSE
    LET light_dir == LightDir(light, intersection)
        n_dot_l == Max2(Dot(intersection.normal, light_dir), 0)
        diffuse == VScale(intersection.diffuse_color, n_dot_l)
        view_dir == VNeg(direction)
        half_vector == Normalize(VAdd(light_dir, view_dir))
        n_dot_h == Max2(Dot(intersection.normal, half_vector), 0)
        specular_factor ==
            IF intersection.shininess = ONE THEN n_dot_h
            ELSE IF intersection.shininess = 0
                 THEN (IF n_dot_l > 0 THEN n_dot_h ELSE 0)
                 ELSE (IF n_dot_l > 0 THEN FPow(n_dot_h, intersection.shininess)
                       ELSE 0)
        specular == VScale(intersection.specular_color, specular_factor)
    IN  ComponentMul(VAdd(diffuse, specular), light.color)

\* the sum over the lights whose contribution is not skipped
RECURSIVE LightAccumulator(_, _, _, _, _)
LightAccumulator(lights, skipped, k, intersection, direction) ==
    IF k > Len(lights) THEN ZERO
    ELSE LET rest == LightAccumulator(lights, skipped, k + 1, intersection, direction)
         IN  IF ~skipped[k]
             THEN VAdd(LightContribution(lights[k], intersection, direction), rest)
             ELSE rest

IsReflective(intersection) ==
    \/ intersection.specular_color[1] > 0
    \/ intersection.specular_color[2] > 0
    \/ intersection.specular_color[3] > 0

\* One call of find_color_recursive as the trace of a pixel records it:
\* its arguments, whether the depth guard returned, the closest hit, for
\* each light whether its contribution was skipped, and whether the call
\* cast a reflection ray.
Call(origin, direction, depth, guarded, hit, skipped, reflected) ==
    [origin |-> origin, direction |-> direction, depth |-> depth,
     guarded |-> guarded, hit |-> hit, skipped |-> skipped,
     reflected |-> reflected]

\* Result: the colour and the chain of calls made, outermost first.
RECURSIVE find_color_recursive(_, _, _, _, _)

\* lines 183-202: the reflection of a hit whose local colour is final_color
\* and whose call record is `this`
reflect(cfg, nodes, direction, depth, intersection, final_color, this) ==
    IF this.reflected
    THEN LET reflect_dir ==
                 VSub(direction,
                      VScale(intersection.normal,
                             FMul(2 * ONE, Dot(direction, intersection.normal))))
             reflect_origin ==
                 VAdd(intersection.point, VScale(intersection.normal, EPS))
             sub == find_color_recursive(cfg, nodes, reflect_origin,
                                         reflect_dir, depth + 1)
         IN  [color |-> VAdd(final_color,
                             ComponentMul(intersection.specular_color, sub.color)),
              calls |-> <<this>> \o sub.calls]
    ELSE [color |-> final_color, calls |-> <<this>>]

\* shade that casts the reflection ray whenever depth <= maxdepth
shade_ReflectToMaxdepth(cfg, nodes, origin, direction, depth, intersection, skipped) ==
    reflect(cfg, nodes, direction, depth, intersection,
            VAdd(LightAccumulator(cfg.lights, skipped, 1, intersection, direction),
                 cfg.ambient),
            Call(origin, direction, depth, FALSE, Some(intersection), skipped,
                 IsReflective(intersection) /\ depth <= cfg.maxdepth))

\* shade with the ambient term scaled by the diffuse colour of the hit
shade_AmbientTimesDiffuse(cfg, nodes, origin, direction, depth, intersection, skipped) ==
    reflect(cfg, nodes, direction, depth, intersection,
            VAdd(LightAccumulator(cfg.lights, skipped, 1, intersection, direction),
                 ComponentMul(cfg.ambient, intersection.diffuse_color)),
            Call(origin, direction, depth, FALSE, Some(intersection), skipped,
                 IsReflective(intersection) /\ depth + 1 < cfg.maxdepth))

\* lines 122-181: the light loop over the hit, `skipped` telling for each
\* light whether the shadow test skipped it, then the ambient term
shade(cfg, nodes, origin, direction, depth, intersection, skipped) ==
    reflect(cfg, nodes, direction, depth, intersection,
            VAdd(LightAccumulator(cfg.lights, skipped, 1, intersection, direction),
                 cfg.ambient),
            Call(origin, direction, depth, FALSE, Some(intersection), skipped,
                 IsReflective(intersection) /\ depth + 1 < cfg.maxdepth))

\* lines 113-122 and 196-201: the closest hit, or black when nothing is hit
shade_closest(cfg, nodes, origin, direction, depth, closest_intersection) ==
    IF IsSome(closest_intersection)
    THEN shade(cfg, nodes, origin, direction, depth,
               Unwrap(closest_intersection),
               [k \in 1..Len(cfg.lights) |->
                   InShadow(cfg, nodes, cfg.lights[k], Unwrap(closest_intersection))])
    ELSE [color |-> ZERO,
          calls |-> <<Call(origin, direction, depth, FALSE, None, <<>>, FALSE)>>]

find_color_recursive(cfg, nodes, origin, direction, depth) ==
    IF depth > cfg.maxdepth
    THEN [color |-> ZERO,
          calls |-> <<Call(origin, direction, depth, TRUE, None, <<>>, FALSE)>>]
    ELSE shade_closest(cfg, nodes, origin, direction, depth,
                       ClosestIntersection(
                           Traverse(nodes, Ray(origin, direction), cfg.scene_objects),
                           Ray(origin, direction)))

\* x.max(0.0).min(1.0)
Clamp01(x) == Min2(Max2(x, 0), ONE)

\* Channel without the clamp
Channel_NoClamp(c) == RoundDiv(c * 255, ONE)

\* (c.max(0.0).min(1.0) * 255.0).round() as u32
Channel(c) == RoundDiv(Clamp01(c) * 255, ONE)

\* bitwise OR of two naturals
RECURSIVE BitOr(_, _)
BitOr(a, b) ==
    IF a = 0 /\ b = 0 THEN 0
    ELSE (IF a % 2 = 1 \/ b % 2 = 1 THEN 1 ELSE 0) + 2 * BitOr(a \div 2, b \div 2)

\* (r << 16) | (g << 8) | b
Pack(r, g, b) == BitOr(BitOr(r * 65536, g * 256), b)

PackColor(color_vec) ==
    Pack(Channel(color_vec[1]), Channel(color_vec[2]), Channel(color_vec[3]))

find_color(cfg, nodes, origin, direction) ==
    PackColor(find_color_recursive(cfg, nodes, origin, direction, 0).color)

-----------------------------------------------------------------------------
(* raytracer.rs: RayTracer::render, primary ray of pixel (x, y) *)

Camera(position, look_at, up, fov) ==
    [position |-> position, look_at |-> look_at, up |-> up, fov |-> fov]

\* Camera::direction
CameraDirection(camera) == Normalize(VSub(camera.look_at, camera.position))

\* (fov * PI / 180.0 / 2.0).tan() for the field of view of the catalogue
TanHalfFov(fov) == CASE fov = 90 -> ONE

PrimaryDirection(cfg, x, y) ==
    LET camera_vector == Normalize(CameraDirection(cfg.camera))
        normal_to_plane == Normalize(Cross(camera_vector, cfg.camera.up))
        v == Normalize(Cross(normal_to_plane, camera_vector))
        pixel_height == TanHalfFov(cfg.camera.fov)
        pixel_width == FMul(pixel_height, FDiv(cfg.width * ONE, cfg.height * ONE))
        img_width_by_2 == FDiv(cfg.width * ONE, 2 * ONE)
        img_height_by_2 == FDiv(cfg.height * ONE, 2 * ONE)
        b == FDiv(FMul(pixel_height, img_height_by_2 - (y * ONE + ONE \div 2)),
                  img_height_by_2)
        a == FDiv(FMul(pixel_width, (x * ONE + ONE \div 2) - img_width_by_2),
                  img_width_by_2)
    IN  Normalize(VAdd(VAdd(VScale(normal_to_plane, a), VScale(v, b)),
                       camera_vector))

\* the value the closure of render stores into the pixel (x, y)
PixelTrace(cfg, nodes, x, y) ==
    find_color_recursive(cfg, nodes, cfg.camera.position,
                         PrimaryDirection(cfg, x, y), 0)

PixelColor(cfg, nodes, x, y) ==
    find_color(cfg, nodes, cfg.camera.position, PrimaryDirection(cfg, x, y))

-----------------------------------------------------------------------------
(* Scenes: the Configs the loader can hand to RayTracer::new *)

MaxWidth == 2

MaxHeight == 2

MaxDepth == 3

MaxCoord == 2

\* a lattice point, in units of ONE
P(x, y, z) == <<x * ONE, y * ONE, z * ONE>>

\* materials: diffuse, specular, shininess
MatteDiffuse == <<ONE \div 2, ONE \div 4, 0>>

GreyDiffuse == <<ONE \div 2, ONE \div 2, ONE \div 2>>

MirrorSpecular == <<ONE, ONE, ONE>>

ShinySpecular == <<ONE \div 2, 0, 0>>

MatteSphere(c, r) == Sphere(c, r * ONE, MatteDiffuse, ZERO, 0)

MirrorSphere(c, r) == Sphere(c, r * ONE, GreyDiffuse, MirrorSpecular, ONE)

MirrorPlane(p, n) == Plane(p, n, GreyDiffuse, MirrorSpecular, ONE)

ShinyPlane(p, n) == Plane(p, n, MatteDiffuse, ShinySpecular, 2 * ONE)

MatteTriangle(a, b, c) == Triangle(a, b, c, MatteDiffuse, ZERO, 0)

ShinyTriangle(a, b, c) == Triangle(a, b, c, GreyDiffuse, ShinySpecular, 2 * ONE)

\* primitive lists of the scene catalogue
NoObjects == <<>>

OneMirror == <<MirrorPlane(P(0, 0, -2), P(0, 0, 1))>>

FacingMirrors ==
    <<MirrorPlane(P(0, 0, -2), P(0, 0, 1)), MirrorPlane(P(0, 0, 2), P(0, 0, -1))>>

SphereOverPlane ==
    <<MatteSphere(P(0, 0, -3), 1), ShinyPlane(P(0, 0, -5), P(0, 0, 1))>>

SpheresOnFloor ==
    <<MirrorSphere(P(0, 0, -3), 2), MatteSphere(P(0, 0, 3), 1),
      ShinyPlane(P(0, -2, 0), P(0, 1, 0))>>

TrianglesAndMirror ==
    <<ShinyTriangle(P(-2, -2, -2), P(-2, 2, -2), P(2, -2, -2)),
      MatteTriangle(P(-2, -2, -4), P(-2, 2, -4), P(2, -2, -4)),
      MirrorPlane(P(0, 0, 2), P(0, 0, -1))>>

White == <<ONE, ONE, ONE>>

Warm == <<ONE, ONE \div 2, ONE \div 4>>

\* light lists of the scene catalogue
NoLights == <<>>

LightAtCamera == <<PointLight(P(0, 0, 0), White)>>

PointThenSun ==
    <<PointLight(P(0, 0, -2), Warm), DirectionalLight(P(0, 1, 0), White)>>

SunThenPoint ==
    <<DirectionalLight(P(0, 0, -1), Warm), PointLight(P(1, 2, -1), White)>>

\* the scenes: primitives and lights
Scenes ==
    { <<NoObjects, LightAtCamera>>,
      <<OneMirror, NoLights>>,
      <<FacingMirrors, PointThenSun>>,
      <<SphereOverPlane, SunThenPoint>>,
      <<SphereOverPlane, LightAtCamera>>,
      <<SpheresOnFloor, PointThenSun>>,
      <<TrianglesAndMirror, SunThenPoint>> }

Ambients == { <<ONE \div 4, ONE \div 2, ONE>> }

Cameras == { Camera(P(0, 0, 0), P(0, 0, -1), P(0, 1, 0), 90) }

\* maxverts: three vertices declared for each triangle of the scene
MakeConfig(width, height, camera, ambient, maxdepth, scene_objects, lights) ==
    [width |-> width, height |-> height, output_file |-> <<"output.png">>,
     camera |-> camera, ambient |-> ambient, maxdepth |-> maxdepth,
     maxverts |-> 3 * Cardinality({ i \in 1..Len(scene_objects) :
                                      scene_objects[i].kind = "Triangle" }),
     scene_objects |-> scene_objects, lights |-> lights]

Configs ==
    { MakeConfig(w, h, cam, amb, md, scene[1], scene[2]) :
        w \in 1..MaxWidth, h \in 1..MaxHeight, cam \in Cameras,
        amb \in Ambients, md \in 0..MaxDepth, scene \in Scenes }

SplitOrders(n) ==
    { f \in [1..n -> 1..n] : \A i, j \in 1..n : i # j => f[i] # f[j] }

IdleProbe == [ray |-> Ray(ZERO, ZERO), traversed |-> FALSE, candidates |-> <<>>,
              closest |-> None, intersected |-> FALSE, hits |-> <<>>]

-----------------------------------------------------------------------------
(* Result<T, String>, as returned by the loader and by Image::compare *)

Ok(v) == [ok |-> TRUE, value |-> v, message |-> ""]

Err(message) == [ok |-> FALSE, value |-> <<>>, message |-> message]

-----------------------------------------------------------------------------
(* imgcomparator/mod.rs: pixels packed as 0x00RRGGBB in a u32, and         *)
(* Image::compare.  x >> n is x \div 2^n; x << n keeps the low 32 - n bits *)
(* of x and moves them up by n, as a u32 shift does.                       *)

\* const RED_SHIFT: u32 = 16
RED_SHIFT == 16

\* const GREEN_SHIFT: u32 = 8
GREEN_SHIFT == 8

\* const CHANNEL_MASK: u32 = 0xFF
CHANNEL_MASK == 255

\* bitwise AND of two naturals
RECURSIVE BitAnd(_, _)
BitAnd(a, b) ==
    IF a = 0 \/ b = 0 THEN 0
    ELSE (IF a % 2 = 1 /\ b % 2 = 1 THEN 1 ELSE 0) + 2 * BitAnd(a \div 2, b \div 2)

\* extract_rgb without the channel mask
extract_rgb_NoMask(pixel) ==
    <<pixel \div (2 ^ RED_SHIFT), pixel \div (2 ^ GREEN_SHIFT), pixel>>

\* extract_rgb: (r, g, b) of a packed pixel
extract_rgb(pixel) ==
    <<BitAnd(pixel \div (2 ^ RED_SHIFT), CHANNEL_MASK),
      BitAnd(pixel \div (2 ^ GREEN_SHIFT), CHANNEL_MASK),
      BitAnd(pixel, CHANNEL_MASK)>>

\* pack_rgb: (r << RED_SHIFT) | (g << GREEN_SHIFT) | b
pack_rgb(r, g, b) ==
    BitOr(BitOr((r % (2 ^ (32 - RED_SHIFT))) * (2 ^ RED_SHIFT),
                (g % (2 ^ (32 - GREEN_SHIFT))) * (2 ^ GREEN_SHIFT)),
          b)

\* struct Image; Image::new stores the three fields as given
Image(width, height, data) == [width |-> width, height |-> height, data |-> data]

\* the loop body without the tolerance of 1 per channel
DiffPixel_NoTolerance(p1, p2) ==
    LET c1 == extract_rgb(p1)
        c2 == extract_rgb(p2)
    IN  pack_rgb(Abs(c1[1] - c2[1]), Abs(c1[2] - c2[2]), Abs(c1[3] - c2[3]))

\* the loop body with the difference taken on the packed values
DiffPixel_PackedSubtraction(p1, p2) ==
    LET c1 == extract_rgb(p1)
        c2 == extract_rgb(p2)
    IN  IF \A k \in 1..3 : Abs(c1[k] - c2[k]) <= 1 THEN 0 ELSE Abs(p1 - p2)

\* the body of the loop of Image::compare for one pair of pixels
DiffPixel(p1, p2) ==
    IF p1 # p2
    THEN LET c1 == extract_rgb(p1)
             c2 == extract_rgb(p2)
             r_diff == Abs(c1[1] - c2[1])
             g_diff == Abs(c1[2] - c2[2])
             b_diff == Abs(c1[3] - c2[3])
         IN  IF r_diff <= 1 /\ g_diff <= 1 /\ b_diff <= 1 THEN 0
             ELSE pack_rgb(r_diff, g_diff, b_diff)
    ELSE 0

\* Image::compare without the dimension test
compare_NoDimensionTest(a, b) ==
    LET diff_pixels == [i \in 1..Min2(Len(a.data), Len(b.data)) |->
                           DiffPixel(a.data[i], b.data[i])]
        total_diff == Cardinality({ i \in 1..Len(diff_pixels) : diff_pixels[i] # 0 })
    IN  Ok(<<total_diff, Image(a.width, a.height, diff_pixels)>>)

\* Image::compare.  zip pairs the pixels up to the shorter data; total_diff
\* counts the non-zero pixels pushed.
compare(a, b) ==
    IF a.height # b.height \/ a.width # b.width
    THEN Err("Images have different dimensions")
    ELSE LET diff_pixels == [i \in 1..Min2(Len(a.data), Len(b.data)) |->
                                DiffPixel(a.data[i], b.data[i])]
             total_diff == Cardinality({ i \in 1..Len(diff_pixels) :
                                           diff_pixels[i] # 0 })
         IN  Ok(<<total_diff, Image(a.width, a.height, diff_pixels)>>)

-----------------------------------------------------------------------------
(* config/config_builder.rs: the scene-file loader.                        *)
(*                                                                         *)
(* A line is the sequence of parts that line.split(' ') yields; two        *)
(* adjacent spaces, or a space at either end, give an empty part.  A part  *)
(* is a token: its text, whether the text starts with COMMENT_CHAR, and    *)
(* what str::parse::<f32>, str::parse::<u32> and str::parse::<usize> make  *)
(* of the text (None when the parse fails).  self.vertices[i] of the code  *)
(* is self.vertices[i + 1] here.                                           *)

Token(text, comment, f32, u32) ==
    [text |-> text, comment |-> comment, f32 |-> f32, u32 |-> u32]

\* str::trim on a split line: the parts without leading and trailing empty ones
RECURSIVE TrimStart(_)
TrimStart(parts) ==
    IF parts = <<>> \/ Head(parts).text # "" THEN parts ELSE TrimStart(Tail(parts))

RECURSIVE TrimEnd(_)
TrimEnd(parts) ==
    IF parts = <<>> \/ parts[Len(parts)].text # "" THEN parts
    ELSE TrimEnd(SubSeq(parts, 1, Len(parts) - 1))

\* a test of line 153 that skips blank lines only
Skipped_BlankOnly(line) == TrimStart(line) = <<>>

\* line.trim().is_empty() || line.trim_start().starts_with(COMMENT_CHAR)
Skipped(line) == TrimStart(line) = <<>> \/ Head(TrimStart(line)).comment

\* &line[parts[0].len()..].trim(), as value.split(' ') sees it: the parts
\* after the first, trimmed; the empty string splits into one empty part
Param(line) ==
    LET rest == TrimEnd(TrimStart(Tail(line)))
    IN  IF rest = <<>> THEN <<Token("", FALSE, None, None)>> ELSE rest

AllF32(params) == \A i \in 1..Len(params) : IsSome(params[i].f32)

AllU32(params) == \A i \in 1..Len(params) : IsSome(params[i].u32)

\* Vec3::new of the three parsed floats from position i on
Vec3At(params, i) ==
    <<Unwrap(params[i].f32), Unwrap(params[i + 1].f32), Unwrap(params[i + 2].f32)>>

\* struct ParsedConfigState
ParsedConfigState(diffuse_color, specular_color, shininess, vertices) ==
    [diffuse_color |-> diffuse_color, specular_color |-> specular_color,
     shininess |-> shininess, vertices |-> vertices]

\* ParsedConfigState::new
ParsedConfigStateNew == ParsedConfigState(ZERO, ZERO, 0, <<>>)

\* the Config that load_config_file starts from
DefaultConfig ==
    [width |-> 800, height |-> 600, output_file |-> <<"output.png">>,
     camera |-> Camera(ZERO, <<0, 0, ONE>>, <<0, ONE, 0>>, 60),
     ambient |-> ZERO, maxdepth |-> 1, maxverts |-> 0,
     scene_objects |-> <<>>, lights |-> <<>>]

check_rgb_values(c) ==
    IF \E i \in 1..3 : c[i] < 0 \/ c[i] > ONE
    THEN Err("RGB values must be between 0.0 and 1.0")
    ELSE Ok(<<>>)

parse_size(value) ==
    IF Len(value) # 2 THEN Err("Invalid size format")
    ELSE IF ~AllU32(value) THEN Err("invalid digit found in string")
    ELSE IF Unwrap(value[1].u32) = 0 \/ Unwrap(value[2].u32) = 0
         THEN Err("Width and height must be greater than zero")
    ELSE Ok(<<Unwrap(value[1].u32), Unwrap(value[2].u32)>>)

parse_output(value) ==
    IF TrimStart(value) = <<>> THEN Err("Output file name cannot be empty")
    ELSE Ok([i \in 1..Len(value) |-> value[i].text])

\* the field of view is kept in whole degrees
parse_camera(value) ==
    IF Len(value) # 10 THEN Err("Invalid camera format")
    ELSE IF ~AllF32(value) THEN Err("invalid float literal")
    ELSE IF Unwrap(value[10].f32) < ONE \/ Unwrap(value[10].f32) > 179 * ONE
         THEN Err("Field of view (fov) must be between 1 and 179 degrees")
    ELSE Ok(Camera(Vec3At(value, 1), Vec3At(value, 4), Vec3At(value, 7),
                   Unwrap(value[10].f32) \div ONE))

parse_ambient(value) ==
    IF Len(value) # 3 THEN Err("Invalid ambient light format")
    ELSE IF ~AllF32(value) THEN Err("invalid float literal")
    ELSE IF ~check_rgb_values(Vec3At(value, 1)).ok
         THEN check_rgb_values(Vec3At(value, 1))
    ELSE Ok(Vec3At(value, 1))

parse_simple_vec3(value) ==
    IF Len(value) # 3 THEN Err("Invalid Vec3 format")
    ELSE IF ~AllF32(value) THEN Err("invalid float literal")
    ELSE Ok(Vec3At(value, 1))

parse_point_light(value) ==
    IF Len(value) # 6 THEN Err("Invalid point light format")
    ELSE IF ~AllF32(value) THEN Err("invalid float literal")
    ELSE IF ~check_rgb_values(Vec3At(value, 4)).ok
         THEN check_rgb_values(Vec3At(value, 4))
    ELSE Ok(PointLight(Vec3At(value, 1), Vec3At(value, 4)))

parse_directional_light(value) ==
    IF Len(value) # 6 THEN Err("Invalid directional light format")
    ELSE IF ~AllF32(value) THEN Err("invalid float literal")
    ELSE IF ~check_rgb_values(Vec3At(value, 4)).ok
         THEN check_rgb_values(Vec3At(value, 4))
    ELSE Ok(DirectionalLight(Normalize(Vec3At(value, 1)), Vec3At(value, 4)))

\* parse_sphere with the default material instead of the current one
parse_sphere_DefaultMaterial(self, value) ==
    IF Len(value) # 4 THEN Err("Invalid sphere format")
    ELSE IF ~AllF32(value) THEN Err("invalid float literal")
    ELSE IF Unwrap(value[4].f32) <= 0
         THEN Err("Sphere radius must be greater than zero")
    ELSE Ok(Sphere(Vec3At(value, 1), Unwrap(value[4].f32), ZERO, ZERO, 0))

parse_sphere(self, value) ==
    IF Len(value) # 4 THEN Err("Invalid sphere format")
    ELSE IF ~AllF32(value) THEN Err("invalid float literal")
    ELSE IF Unwrap(value[4].f32) <= 0
         THEN Err("Sphere radius must be greater than zero")
    ELSE Ok(Sphere(Vec3At(value, 1), Unwrap(value[4].f32),
                   self.diffuse_color, self.specular_color, self.shininess))

\* parse_triangle without the bounds test of the third index
parse_triangle_TwoIndexTest(self, value) ==
    IF Len(value) # 3 THEN Err("Invalid triangle format")
    ELSE IF ~AllU32(value) THEN Err("invalid digit found in string")
    ELSE IF \E i \in 1..2 : Unwrap(value[i].u32) >= Len(self.vertices)
         THEN Err("Triangle vertex index out of bounds")
    ELSE Ok(Triangle(self.vertices[Unwrap(value[1].u32) + 1],
                     self.vertices[Unwrap(value[2].u32) + 1],
                     self.vertices[Min2(Unwrap(value[3].u32),
                                         Len(self.vertices) - 1) + 1],
                     self.diffuse_color, self.specular_color, self.shininess))

parse_triangle(self, value) ==
    IF Len(value) # 3 THEN Err("Invalid triangle format")
    ELSE IF ~AllU32(value) THEN Err("invalid digit found in string")
    ELSE IF \E i \in 1..3 : Unwrap(value[i].u32) >= Len(self.vertices)
         THEN Err("Triangle vertex index out of bounds")
    ELSE Ok(Triangle(self.vertices[Unwrap(value[1].u32) + 1],
                     self.vertices[Unwrap(value[2].u32) + 1],
                     self.vertices[Unwrap(value[3].u32) + 1],
                     self.diffuse_color, self.specular_color, self.shininess))

parse_plane(self, value) ==
    IF Len(value) # 6 THEN Err("Invalid plane format")
    ELSE IF ~AllF32(value) THEN Err("invalid float literal")
    ELSE Ok(Plane(Vec3At(value, 1), Normalize(Vec3At(value, 4)),
                  self.diffuse_color, self.specular_color, self.shininess))

\* what one call of parse_line leaves behind: its Result, and the parser
\* state and the Config as they are when it returns
Outcome(r, self, cfg) == [result |-> r, self |-> self, config |-> cfg]

\* match parts[0] { ... } of parse_line, with the value of each arm's parser.
\* An arm that ends in `?` returns the Err of its parser; "diffuse",
\* "specular" and "shininess" assign to self before their range tests.
MatchKey(self, cfg, key, param) ==
    CASE key = "size" ->
           LET r == parse_size(param)
           IN  IF ~r.ok THEN Outcome(r, self, cfg)
               ELSE Outcome(Ok(<<>>), self,
                            [cfg EXCEPT !.width = r.value[1], !.height = r.value[2]])
      [] key = "output" ->
           LET r == parse_output(param)
           IN  IF ~r.ok THEN Outcome(r, self, cfg)
               ELSE Outcome(Ok(<<>>), self, [cfg EXCEPT !.output_file = r.value])
      [] key = "camera" ->
           LET r == parse_camera(param)
           IN  IF ~r.ok THEN Outcome(r, self, cfg)
               ELSE Outcome(Ok(<<>>), self, [cfg EXCEPT !.camera = r.value])
      [] key = "ambient" ->
           LET r == parse_ambient(param)
           IN  IF ~r.ok THEN Outcome(r, self, cfg)
               ELSE Outcome(Ok(<<>>), self, [cfg EXCEPT !.ambient = r.value])
      [] key \in {"sphere", "tri", "plane"} ->
           LET r == CASE key = "sphere" -> parse_sphere(self, param)
                      [] key = "tri" -> parse_triangle(self, param)
                      [] key = "plane" -> parse_plane(self, param)
           IN  IF ~r.ok THEN Outcome(r, self, cfg)
               ELSE Outcome(Ok(<<>>), self,
                            [cfg EXCEPT !.scene_objects = Append(@, r.value)])
      [] key \in {"point", "directional"} ->
           LET r == IF key = "point" THEN parse_point_light(param)
                    ELSE parse_directional_light(param)
           IN  IF ~r.ok THEN Outcome(r, self, cfg)
               ELSE Outcome(Ok(<<>>), self, [cfg EXCEPT !.lights = Append(@, r.value)])
      [] key = "diffuse" ->
           LET r == parse_simple_vec3(param)
               stored == [self EXCEPT !.diffuse_color = r.value]
           IN  IF ~r.ok THEN Outcome(r, self, cfg)
               ELSE IF ~check_rgb_values(r.value).ok
                    THEN Outcome(check_rgb_values(r.value), stored, cfg)
               ELSE IF \E i \in 1..3 : r.value[i] + cfg.ambient[i] > ONE
                    THEN Outcome(Err("Sum of diffuse color and ambient light components must not exceed 1.0"),
                                 stored, cfg)
               ELSE Outcome(Ok(<<>>), stored, cfg)
      [] key = "specular" ->
           LET r == parse_simple_vec3(param)
               stored == [self EXCEPT !.specular_color = r.value]
           IN  IF ~r.ok THEN Outcome(r, self, cfg)
               ELSE IF \E i \in 1..3 : r.value[i] < 0
                    THEN Outcome(Err("Specular color components must be non-negative"),
                                 stored, cfg)
               ELSE Outcome(Ok(<<>>), stored, cfg)
      [] key = "shininess" ->
           IF ~(Len(param) = 1 /\ IsSome(param[1].f32))
           THEN Outcome(Err("invalid float literal"), self, cfg)
           ELSE IF Unwrap(param[1].f32) < 0
                THEN Outcome(Err("Shininess must be non-negative"),
                             [self EXCEPT !.shininess = Unwrap(param[1].f32)], cfg)
           ELSE Outcome(Ok(<<>>), [self EXCEPT !.shininess = Unwrap(param[1].f32)], cfg)
      [] key = "maxdepth" ->
           IF ~(Len(param) = 1 /\ IsSome(param[1].u32))
           THEN Outcome(Err("invalid digit found in string"), self, cfg)
           ELSE Outcome(Ok(<<>>), self, [cfg EXCEPT !.maxdepth = Unwrap(param[1].u32)])
      [] key = "maxverts" ->
           IF ~(Len(param) = 1 /\ IsSome(param[1].u32))
           THEN Outcome(Err("invalid digit found in string"), self, cfg)
           ELSE Outcome(Ok(<<>>), self, [cfg EXCEPT !.maxverts = Unwrap(param[1].u32)])
      [] key = "vertex" ->
           LET r == parse_simple_vec3(param)
           IN  IF ~r.ok THEN Outcome(r, self, cfg)
               ELSE IF Len(self.vertices) >= cfg.maxverts
                    THEN Outcome(Err("Exceeded maximum number of vertices (maxverts)"),
                                 self, cfg)
               ELSE Outcome(Ok(<<>>), [self EXCEPT !.vertices = Append(@, r.value)], cfg)
      [] OTHER -> Outcome(Err("Unknown configuration key"), self, cfg)

\* parse_line
parse_line(self, cfg, line) ==
    IF Skipped(line) THEN Outcome(Ok(<<>>), self, cfg)
    ELSE IF Len(line) >= 2 THEN MatchKey(self, cfg, line[1].text, Param(line))
    ELSE Outcome(Ok(<<>>), self, cfg)

IdleCodec == [start |-> "none", pixel |-> None, rgb |-> None,
              pixel_back |-> None, rgb_back |-> None]

IdleImages ==
    /\ img1 = Image(1, 1, <<0>>)
    /\ img2 = Image(1, 1, <<0>>)
    /\ compared = None
    /\ codec = IdleCodec

IdleLoader ==
    /\ parsed_config = ParsedConfigStateNew
    /\ line_no = 0
    /\ line_read = <<>>
    /\ result = None
    /\ loaded = <<>>

-----------------------------------------------------------------------------
(* raytracer.rs: RayTracer::new and RayTracer::render as a state machine.  *)
(* pc is the driver's position: "new" (Config loaded), "ready" (RayTracer  *)
(* constructed), "running" (row workers active), "done" (render returned). *)

Pixels(cfg) == 1..(cfg.width * cfg.height)

Init ==
    /\ pc = "new"
    /\ config \in Configs
    /\ bvh = <<>>
    /\ built_from = <<>>
    /\ image_data = <<>>
    /\ row_x = <<>>
    /\ writes = <<>>
    /\ traces = <<>>
    /\ prev_image = None
    /\ probe = IdleProbe
    /\ IdleLoader
    /\ IdleImages
    /\ gpu = None

\* RayTracer::new that keeps the Config's own primitives instead of the
\* array the builder worked on
RayTracerNew_NoWriteBack ==
    /\ pc = "new"
    /\ \E order \in SplitOrders(Len(config.scene_objects)) :
         LET nodes == Build(config.scene_objects, order)
             objects == WithNodeIndices(config.scene_objects, nodes)
         IN  /\ bvh' = nodes
             /\ built_from' = objects
             /\ config' = config
    /\ pc' = "ready"
    /\ UNCHANGED <<image_data, row_x, writes, traces, prev_image, probe,
                   loader_vars, image_vars, gpu>>

\* RayTracer::new: clone the primitives, build the BVH over the clone (the
\* builder writes every primitive's node index), store the clone back
RayTracerNew ==
    /\ pc = "new"
    /\ \E order \in SplitOrders(Len(config.scene_objects)) :
         LET nodes == Build(config.scene_objects, order)
             objects == WithNodeIndices(config.scene_objects, nodes)
         IN  /\ bvh' = nodes
             /\ built_from' = objects
             /\ config' = [config EXCEPT !.scene_objects = objects]
    /\ pc' = "ready"
    /\ UNCHANGED <<image_data, row_x, writes, traces, prev_image, probe,
                   loader_vars, image_vars, gpu>>

\* render, up to the dispatch of the row workers; a RayTracer can render
\* again after a render has returned
RenderStart ==
    /\ pc \in {"ready", "done"}
    /\ prev_image = None
    /\ prev_image' = IF pc = "done" THEN Some(image_data) ELSE None
    /\ image_data' = [i \in Pixels(config) |-> 0]
    /\ row_x' = [y \in 0..(config.height - 1) |-> 0]
    /\ writes' = [i \in Pixels(config) |-> <<>>]
    /\ traces' = [i \in Pixels(config) |-> <<>>]
    /\ pc' = "running"
    /\ UNCHANGED <<config, bvh, built_from, probe,
                   loader_vars, image_vars, gpu>>

\* RowStep addressing the buffer column-major
RowStep_ColumnMajor(y) ==
    /\ pc = "running"
    /\ row_x[y] < config.width
    /\ LET x == row_x[y]
           i == x * config.height + y + 1
       IN  /\ traces' = [traces EXCEPT ![i] = <<PixelTrace(config, bvh, x, y)>>]
           /\ image_data' = [image_data EXCEPT ![i] = PackColor(traces'[i][1].color)]
           /\ writes' = [writes EXCEPT ![i] = Append(@, y)]
    /\ row_x' = [row_x EXCEPT ![y] = @ + 1]
    /\ UNCHANGED <<pc, config, bvh, built_from, prev_image, probe,
                   loader_vars, image_vars, gpu>>

\* RowStep taking the column of the ray from a counter shared by the rows
RowStep_SharedCounter(y) ==
    /\ pc = "running"
    /\ row_x[y] < config.width
    /\ LET x == row_x[y]
           i == y * config.width + x + 1
           done == Cardinality({j \in Pixels(config) : Len(writes[j]) > 0})
       IN  /\ traces' = [traces EXCEPT ![i] =
                             <<PixelTrace(config, bvh, done % config.width, y)>>]
           /\ image_data' = [image_data EXCEPT ![i] = PackColor(traces'[i][1].color)]
           /\ writes' = [writes EXCEPT ![i] = Append(@, y)]
    /\ row_x' = [row_x EXCEPT ![y] = @ + 1]
    /\ UNCHANGED <<pc, config, bvh, built_from, prev_image, probe,
                   loader_vars, image_vars, gpu>>

\* the worker of row y shades and stores its next pixel
RowStep(y) ==
    /\ pc = "running"
    /\ row_x[y] < config.width
    /\ LET x == row_x[y]
           i == y * config.width + x + 1
       IN  /\ traces' = [traces EXCEPT ![i] = <<PixelTrace(config, bvh, x, y)>>]
           /\ image_data' = [image_data EXCEPT ![i] = PackColor(traces'[i][1].color)]
           /\ writes' = [writes EXCEPT ![i] = Append(@, y)]
    /\ row_x' = [row_x EXCEPT ![y] = @ + 1]
    /\ UNCHANGED <<pc, config, bvh, built_from, prev_image, probe,
                   loader_vars, image_vars, gpu>>

\* RenderReturn that does not wait for the row workers
RenderReturn_NoJoin ==
    /\ pc = "running"
    /\ pc' = "done"
    /\ UNCHANGED <<config, bvh, built_from, image_data, row_x, writes, traces,
                   prev_image, probe,
                   loader_vars, image_vars, gpu>>

\* for_each returns once every row is finished; render returns Ok(Image)
RenderReturn ==
    /\ pc = "running"
    /\ \A y \in DOMAIN row_x : row_x[y] = config.width
    /\ pc' = "done"
    /\ UNCHANGED <<config, bvh, built_from, image_data, row_x, writes, traces,
                   prev_image, probe,
                   loader_vars, image_vars, gpu>>

Next ==
    \/ RayTracerNew
    \/ RenderStart
    \/ \E y \in DOMAIN row_x : RowStep(y)
    \/ RenderReturn

Spec == Init /\ [][Next]_vars

\* The progress of the worker of row y: the effect of RowStep(y) on the
\* worker's position.  A step of Spec changes row_x this way exactly when it
\* is a RowStep(y) step, and RowAdvance(y) is enabled exactly when RowStep(y)
\* is, so weak fairness of RowAdvance(y) is weak fairness of the row worker.
RowAdvance(y) ==
    /\ pc = "running"
    /\ y \in DOMAIN row_x
    /\ row_x[y] < config.width
    /\ row_x' = [row_x EXCEPT ![y] = @ + 1]

\* the pool runs every row that is not finished; for_each returns when all are
FairSpec ==
    /\ Spec
    /\ WF_vars(RenderReturn)
    /\ \A y \in 0..(MaxHeight - 1) : WF_row_x(RowAdvance(y))

-----------------------------------------------------------------------------
(* Ray queries against a constructed RayTracer: one ray, drawn from the    *)
(* lattice, is traversed through the BVH as find_color_recursive does and  *)
(* intersected with every primitive of the scene.                          *)

ProbeObjectLists ==
    { <<MatteSphere(P(0, 0, 0), 1)>>,
      <<MatteSphere(P(0, 0, 0), 1), MirrorSphere(P(1, 1, 0), 2)>>,
      <<MirrorPlane(P(0, 0, -1), P(0, 0, 1)), ShinyPlane(P(1, 0, 0), P(-1, 0, 0)),
        MatteSphere(P(-1, 0, 1), 1)>>,
      <<ShinyTriangle(P(-1, -1, 0), P(1, -1, 0), P(-1, 1, 0)),
        MatteTriangle(P(0, 0, -1), P(0, 2, -1), P(0, 0, 1)),
        MatteSphere(P(1, 1, 1), 1)>>,
      <<MatteTriangle(P(-2, -2, 1), P(2, -2, 1), P(-2, 2, 1)),
        MirrorPlane(P(0, 1, 0), P(0, 1, 0))>>,
      <<MatteSphere(P(0, 0, 0), 1), MirrorPlane(P(0, 0, 1), P(0, 0, 1))>> }

ProbeConfigs ==
    { MakeConfig(1, 1, cam, ZERO, 1, objs, <<>>) :
        cam \in Cameras, objs \in ProbeObjectLists }

Coords == (-MaxCoord)..MaxCoord

AxisDirections ==
    { P(1, 0, 0), P(-1, 0, 0), P(0, 1, 0), P(0, -1, 0), P(0, 0, 1), P(0, 0, -1) }

ProbeRays ==
    { Ray(P(x, y, z), d) : x \in Coords, y \in Coords, z \in Coords,
                           d \in AxisDirections }

InitProbe ==
    /\ pc = "new"
    /\ config \in ProbeConfigs
    /\ bvh = <<>>
    /\ built_from = <<>>
    /\ image_data = <<>>
    /\ row_x = <<>>
    /\ writes = <<>>
    /\ traces = <<>>
    /\ prev_image = None
    /\ \E r \in ProbeRays : probe = [IdleProbe EXCEPT !.ray = r]
    /\ IdleLoader
    /\ IdleImages
    /\ gpu = None

\* lines 109-120 of find_color_recursive: candidates of the ray, closest hit
ProbeTraverse ==
    /\ pc = "ready"
    /\ ~probe.traversed
    /\ probe' = [probe EXCEPT
                   !.traversed = TRUE,
                   !.candidates = TraverseIndices(bvh, probe.ray),
                   !.closest = ClosestIntersection(
                                   Traverse(bvh, probe.ray, config.scene_objects),
                                   probe.ray)]
    /\ UNCHANGED <<pc, config, bvh, built_from, image_data, row_x, writes,
                   traces, prev_image,
                   loader_vars, image_vars, gpu>>

\* Shape::intersect of every primitive of the scene with the ray
ProbeIntersect ==
    /\ pc = "ready"
    /\ ~probe.intersected
    /\ probe' = [probe EXCEPT
                   !.intersected = TRUE,
                   !.hits = [i \in 1..Len(config.scene_objects) |->
                                intersect(config.scene_objects[i], probe.ray)]]
    /\ UNCHANGED <<pc, config, bvh, built_from, image_data, row_x, writes,
                   traces, prev_image,
                   loader_vars, image_vars, gpu>>

NextProbe ==
    \/ RayTracerNew
    \/ ProbeTraverse
    \/ ProbeIntersect

ProbeSpec == InitProbe /\ [][NextProbe]_vars

-----------------------------------------------------------------------------
(* Scene files.  A file is read line by line; each line is drawn from the  *)
(* catalogue below, so a file is any sequence of at most MaxLines of them. *)

MaxLines == 4

Lines ==
    LET Word(text) == Token(text, FALSE, None, None)
        Hash(text) == Token(text, TRUE, None, None)
        \* an unsigned decimal integer literal
        IntLit(text, n) == Token(text, FALSE, Some(n * ONE), Some(n))
        \* any other decimal literal (a sign or a fraction): f32 only
        DecLit(text, v) == Token(text, FALSE, Some(v), None)
        Blank == Word("")
        N0 == IntLit("0", 0)
        N1 == IntLit("1", 1)
        N2 == IntLit("2", 2)
        Half == DecLit("0.5", ONE \div 2)
        Minus(text, n) == DecLit(text, -(n * ONE))
        Key(directive, params) == <<Word(directive)>> \o params
    IN  { <<Blank>>,                                         \* ""
          <<Hash("#"), Word("scene")>>,                      \* "# scene"
          <<Blank, Hash("#tri"), N0, N1, N2>>,               \* " #tri 0 1 2"
          <<Word("foo")>>,                                   \* "foo"
          <<Word("foo"), N1>>,                               \* "foo 1"
          <<Word("sphere")>>,                                \* "sphere"
          Key("size", <<N2, N1>>),
          Key("size", <<N2, Blank, N1>>),                    \* "size 2  1"
          Key("size", <<N0, N2>>),
          Key("output", <<Word("out.png")>>),
          Key("camera", <<N0, N0, N0, N0, N0, Minus("-1", 1), N0, N1, N0,
                          IntLit("90", 90)>>),
          Key("maxdepth", <<N0>>),
          Key("maxdepth", <<N2>>),
          Key("ambient", <<Half, Half, N1>>),
          Key("diffuse", <<Half, Half, Half>>),
          Key("diffuse", <<N2, N0, N0>>),
          Key("specular", <<N1, N1, N1>>),
          Key("specular", <<Minus("-1", 1), N0, N0>>),
          Key("shininess", <<N2>>),
          Key("shininess", <<Minus("-1", 1)>>),
          Key("sphere", <<N0, N0, Minus("-3", 3), N1>>),
          Key("sphere", <<N0, N0, N0, N0>>),
          Key("plane", <<N0, N0, Minus("-5", 5), N0, N0, N2>>),
          Key("maxverts", <<N1>>),
          Key("maxverts", <<N2>>),
          Key("vertex", <<N0, N0, Minus("-2", 2)>>),
          Key("vertex", <<N1, N0, Minus("-2", 2)>>),
          Key("tri", <<N0, N1, N0>>),
          Key("tri", <<N0, N1, N2>>),
          Key("point", <<N0, N0, N0, N1, N1, N1>>),
          Key("directional", <<N0, N2, N0, N1, N1, N1>>) }

-----------------------------------------------------------------------------
(* ParsedConfigState::load_config_file as a state machine.  pc is "load"   *)
(* while the for loop over the lines runs, "new" once Ok(config) is        *)
(* returned (a RayTracer can be constructed from it), "error" once Err is  *)
(* returned.  line_read is the line handed to parse_line last, line_no    *)
(* counts the lines read, result is what load_config_file returned.       *)

InitLoad ==
    /\ pc = "load"
    /\ config = DefaultConfig
    /\ parsed_config = ParsedConfigStateNew
    /\ line_no = 0
    /\ line_read = <<>>
    /\ result = None
    /\ loaded = <<>>
    /\ bvh = <<>>
    /\ built_from = <<>>
    /\ image_data = <<>>
    /\ row_x = <<>>
    /\ writes = <<>>
    /\ traces = <<>>
    /\ prev_image = None
    /\ probe = IdleProbe
    /\ IdleImages
    /\ gpu = None

\* a loop that goes on to the next line when parse_line returns Err
ReadLine_SkipRejected(l, out) ==
    /\ line_read' = l
    /\ line_no' = line_no + 1
    /\ parsed_config' = out.self
    /\ config' = out.config
    /\ pc' = pc
    /\ result' = result

\* self.parse_line(&line, &mut config)?  with the outcome out of the call
ReadLine(l, out) ==
    /\ line_read' = l
    /\ line_no' = line_no + 1
    /\ parsed_config' = out.self
    /\ config' = out.config
    /\ pc' = IF out.result.ok THEN pc ELSE "error"
    /\ result' = IF out.result.ok THEN result ELSE Some(out.result)

\* one iteration of the for loop of load_config_file
ParseLine ==
    /\ pc = "load"
    /\ line_no < MaxLines
    /\ \E l \in Lines : ReadLine(l, parse_line(parsed_config, config, l))
    /\ UNCHANGED <<bvh, built_from, image_data, row_x, writes, traces,
                   prev_image, probe, image_vars, gpu, loaded>>

\* the end of the file: Ok(config)
LoadReturn ==
    /\ pc = "load"
    /\ pc' = "new"
    /\ result' = Some(Ok(config))
    /\ UNCHANGED <<config, parsed_config, line_no, line_read, bvh, built_from,
                   image_data, row_x, writes, traces, prev_image, probe,
                   image_vars, gpu, loaded>>

NextLoad ==
    \/ ParseLine
    \/ LoadReturn
    \/ RayTracerNew

LoadSpec == InitLoad /\ [][NextLoad]_vars

-----------------------------------------------------------------------------
(* imgcomparator: Image::compare on a pair of images, and the pixel codec  *)
(* applied in both orders.  Image::new does not relate data.len() to the   *)
(* dimensions, so the data of an image is any sequence of pixels.          *)

MaxData == 2

\* images of up to MaxData pixels 0x000000, 0x010101 or 0xFF0080
Images ==
    LET PixelData == UNION { [1..n -> { 0, 65793, 16711808 }] : n \in 0..MaxData }
    IN  { Image(w, h, d) : w \in 1..MaxWidth, h \in 1..MaxHeight, d \in PixelData }

ChannelValues == { 0, 1, 2, 127, 128, 254, 255 }

\* pixels 0x00RRGGBB over ChannelValues, and three with a non-zero high byte
CodecPixels ==
    { r * 65536 + g * 256 + b : r \in ChannelValues, g \in ChannelValues,
                                b \in ChannelValues }
    \cup { 16777216, 16777216 + 66051, 2130706432 + 255 }

InitImage ==
    /\ pc = "images"
    /\ config = DefaultConfig
    /\ parsed_config = ParsedConfigStateNew
    /\ line_no = 0
    /\ line_read = <<>>
    /\ result = None
    /\ loaded = <<>>
    /\ bvh = <<>>
    /\ built_from = <<>>
    /\ image_data = <<>>
    /\ row_x = <<>>
    /\ writes = <<>>
    /\ traces = <<>>
    /\ prev_image = None
    /\ probe = IdleProbe
    /\ gpu = None
    /\ compared = None
    /\ \/ /\ img1 \in Images
          /\ img2 \in Images
          /\ codec = IdleCodec
       \/ /\ img1 = Image(1, 1, <<0>>)
          /\ img2 = Image(1, 1, <<0>>)
          /\ \/ \E p \in CodecPixels :
                  codec = [IdleCodec EXCEPT !.start = "pixel", !.pixel = Some(p)]
             \/ \E r \in ChannelValues, g \in ChannelValues, b \in ChannelValues :
                  codec = [IdleCodec EXCEPT !.start = "rgb", !.rgb = Some(<<r, g, b>>)]

\* Image::compare(&img1, &img2)
Compare ==
    /\ codec.start = "none"
    /\ compared = None
    /\ compared' = Some(compare(img1, img2))
    /\ UNCHANGED <<img1, img2, codec, render_vars, loader_vars, gpu>>

\* extract_rgb of the pixel at hand
ExtractRgb ==
    /\ \/ /\ codec.start = "pixel"
          /\ codec.rgb = None
          /\ codec' = [codec EXCEPT !.rgb = Some(extract_rgb(Unwrap(codec.pixel)))]
       \/ /\ codec.start = "rgb"
          /\ codec.pixel # None
          /\ codec.rgb_back = None
          /\ codec' = [codec EXCEPT !.rgb_back = Some(extract_rgb(Unwrap(codec.pixel)))]
    /\ UNCHANGED <<img1, img2, compared, render_vars, loader_vars, gpu>>

\* pack_rgb of the channels at hand
PackRgb ==
    /\ \/ /\ codec.start = "rgb"
          /\ codec.pixel = None
          /\ codec' = [codec EXCEPT !.pixel =
                         Some(pack_rgb(codec.rgb[1][1], codec.rgb[1][2], codec.rgb[1][3]))]
       \/ /\ codec.start = "pixel"
          /\ codec.rgb # None
          /\ codec.pixel_back = None
          /\ codec' = [codec EXCEPT !.pixel_back =
                         Some(pack_rgb(codec.rgb[1][1], codec.rgb[1][2], codec.rgb[1][3]))]
    /\ UNCHANGED <<img1, img2, compared, render_vars, loader_vars, gpu>>

NextImage ==
    \/ Compare
    \/ ExtractRgb
    \/ PackRgb

ImageSpec == InitImage /\ [][NextImage]_vars

-----------------------------------------------------------------------------
(* raytracer/gpu_backend.rs (GpuBackend) and raytracer/gpu_renderer.rs      *)
(* (GPURenderer): the two GPU drivers.  Both fill the scene buffers, record *)
(* one compute pass and a copy of the output buffer into a staging buffer,  *)
(* submit, ask for the staging buffer to be mapped, wait for the device and *)
(* read the mapped range.  The compute shaders (shader.wgsl and             *)
(* ray_tracing.wgsl) are not part of the sources at hand.                   *)

\* GpuBackend::prepare_scene_data: one Vec for each kind of primitive and one
\* for the lights, each with a null element pushed when it would be empty
prepare_scene_data(cfg) ==
    LET objs == cfg.scene_objects
        OfKind(k) == SelectSeq(objs, LAMBDA o : o.kind = k)
        GpuSphere(o) == [center |-> o.center, radius |-> o.radius,
                         diffuse_color |-> o.diffuse_color,
                         specular_color |-> o.specular_color,
                         shininess |-> o.shininess]
        GpuPlane(o) == [point |-> o.point, normal |-> o.normal,
                        diffuse_color |-> o.diffuse_color,
                        specular_color |-> o.specular_color,
                        shininess |-> o.shininess]
        GpuTriangle(o) == [v0 |-> o.v0, v1 |-> o.v1, v2 |-> o.v2,
                           diffuse_color |-> o.diffuse_color,
                           specular_color |-> o.specular_color,
                           shininess |-> o.shininess]
        GpuLight(l) == IF l.kind = "Point"
                       THEN [position_or_direction |-> l.position,
                             light_type |-> 0, color |-> l.color]
                       ELSE [position_or_direction |-> l.direction,
                             light_type |-> 1, color |-> l.color]
        spheres == [i \in 1..Len(OfKind("Sphere")) |-> GpuSphere(OfKind("Sphere")[i])]
        planes == [i \in 1..Len(OfKind("Plane")) |-> GpuPlane(OfKind("Plane")[i])]
        triangles ==
            [i \in 1..Len(OfKind("Triangle")) |-> GpuTriangle(OfKind("Triangle")[i])]
        lights == [i \in 1..Len(cfg.lights) |-> GpuLight(cfg.lights[i])]
    IN  [spheres |->
            IF spheres = <<>>
            THEN <<[center |-> ZERO, radius |-> 0, diffuse_color |-> ZERO,
                    specular_color |-> ZERO, shininess |-> 0]>>
            ELSE spheres,
         planes |->
            IF planes = <<>>
            THEN <<[point |-> ZERO, normal |-> <<0, ONE, 0>>,
                    diffuse_color |-> ZERO, specular_color |-> ZERO,
                    shininess |-> 0]>>
            ELSE planes,
         triangles |->
            IF triangles = <<>>
            THEN <<[v0 |-> ZERO, v1 |-> ZERO, v2 |-> ZERO, diffuse_color |-> ZERO,
                    specular_color |-> ZERO, shininess |-> 0]>>
            ELSE triangles,
         lights |->
            IF lights = <<>>
            THEN <<[position_or_direction |-> ZERO, light_type |-> 0,
                    color |-> ZERO]>>
            ELSE lights]

\* The entry point of the compute shader, @workgroup_size(8, 8): the pixels
\* the invocation with global id gid writes, for an image of the given size.
\* One invocation for each output pixel; an invocation outside the image
\* writes nothing.
cs_main(gid, width, height) ==
    IF gid[1] < width /\ gid[2] < height THEN { <<gid[1], gid[2]>> } ELSE {}

\* the largest width and height of the images rendered on the GPU
MaxGpuDim == 9

\* GpuBackend::render and GPURenderer::render as a state machine.  gpu.pc is
\* the host's position in render; the device runs the submitted commands on
\* its own.  events lists what the host has done so far.
InitGpu ==
    LET LoneSphere == <<MatteSphere(P(0, 0, -3), 1)>>
        GpuScenes == { <<NoObjects, NoLights>>,
                       <<OneMirror, LightAtCamera>>,
                       <<LoneSphere, NoLights>>,
                       <<SphereOverPlane, LightAtCamera>>,
                       <<SpheresOnFloor, PointThenSun>>,
                       <<TrianglesAndMirror, SunThenPoint>> }
        GpuConfigs ==
            { MakeConfig(w, h, cam, amb, 1, scene[1], scene[2]) :
                w \in 1..MaxGpuDim, h \in 1..MaxGpuDim, cam \in Cameras,
                amb \in Ambients, scene \in GpuScenes }
        \* an image of more than 2^30 pixels
        Huge == { MakeConfig(32769, 32768, cam, amb, 1, LoneSphere, LightAtCamera) :
                    cam \in Cameras, amb \in Ambients }
        Fresh(backend) ==
            [backend |-> backend, pc |-> "start", bound |-> None, counts |-> None,
             workgroups |-> None, output_buffer_size |-> None, events |-> <<>>,
             submitted |-> FALSE, output |-> "unwritten", staging |-> "unwritten",
             map_requested |-> FALSE, channel |-> None, read_data |-> None,
             result |-> None]
    IN  /\ pc = "gpu"
        /\ \/ /\ config \in GpuConfigs
              /\ gpu \in { Fresh("GpuBackend"), Fresh("GPURenderer") }
           \/ /\ config \in Huge
              /\ gpu = Fresh("GPURenderer")
        /\ bvh = <<>>
        /\ built_from = <<>>
        /\ image_data = <<>>
        /\ row_x = <<>>
        /\ writes = <<>>
        /\ traces = <<>>
        /\ prev_image = None
        /\ probe = IdleProbe
        /\ IdleLoader
        /\ IdleImages

\* GpuBackend::render up to the bind group: the scene buffers, the scene
\* parameters with their counts (the lengths of the buffers) and the size of
\* the output buffer in bytes, worked out in usize
GpuBackend_render ==
    /\ pc = "gpu"
    /\ gpu.pc = "start"
    /\ gpu.backend = "GpuBackend"
    /\ LET data == prepare_scene_data(config)
       IN  gpu' = [gpu EXCEPT
               !.pc = "encode",
               !.bound = Some(data),
               !.counts = Some([num_spheres |-> Len(data.spheres),
                                num_planes |-> Len(data.planes),
                                num_triangles |-> Len(data.triangles),
                                num_lights |-> Len(data.lights)]),
               !.output_buffer_size = Some(config.width * config.height * 4)]
    /\ UNCHANGED <<pc, config, bvh, built_from, image_data, row_x, writes, traces,
                   prev_image, probe, loader_vars, image_vars>>

\* GPURenderer::render up to the bind group, with extract_spheres (the
\* spheres of the scene, nothing else) and extract_lights (one GPULight for
\* each light of the scene).  Err for a scene without spheres.  The size of the output buffer is worked out in u32:
\* (width * height * 4) mod 2^32 = 4 * ((width * height) mod 2^30) where the
\* build wraps, a panic where it checks the arithmetic.  A buffer without
\* elements in the bind group is refused by the device or goes through.
GPURenderer_render ==
    /\ pc = "gpu"
    /\ gpu.pc = "start"
    /\ gpu.backend = "GPURenderer"
    /\ LET found == SelectSeq(config.scene_objects, LAMBDA o : o.kind = "Sphere")
           \* extract_spheres
           spheres ==
               [i \in 1..Len(found) |->
                   [center |-> found[i].center, radius |-> found[i].radius,
                    diffuse |-> found[i].diffuse_color,
                    specular |-> found[i].specular_color,
                    shininess |-> found[i].shininess]]
           \* extract_lights
           lights ==
               [i \in 1..Len(config.lights) |->
                   IF config.lights[i].kind = "Point"
                   THEN [position_or_direction |-> config.lights[i].position,
                         light_type |-> 0, color |-> config.lights[i].color]
                   ELSE [position_or_direction |-> config.lights[i].direction,
                         light_type |-> 1, color |-> config.lights[i].color]]
           pixels == config.width * config.height
       IN  IF spheres = <<>>
           THEN gpu' = [gpu EXCEPT
                   !.pc = "returned",
                   !.result = Some(Err("GPU rendering currently only supports spheres"))]
           ELSE \/ gpu' = [gpu EXCEPT
                       !.pc = "encode",
                       !.bound = Some([spheres |-> spheres, lights |-> lights]),
                       !.counts = Some([sphere_count |-> Len(spheres),
                                        light_count |-> Len(lights)]),
                       !.output_buffer_size = Some(4 * (pixels % 1073741824))]
                \/ /\ pixels >= 1073741824 \/ lights = <<>>
                   /\ gpu' = [gpu EXCEPT !.pc = "panicked"]
    /\ UNCHANGED <<pc, config, bvh, built_from, image_data, row_x, writes, traces,
                   prev_image, probe, loader_vars, image_vars>>

\* render without the wait: the mapped range is read right after map_async
GpuHostStep_ReadWithoutWait ==
    /\ pc = "gpu"
    /\ gpu.pc \in {"encode", "copy", "submit", "map", "poll", "recv", "read"}
    /\ gpu' =
        CASE gpu.pc = "encode" ->
               [gpu EXCEPT !.pc = "copy",
                           !.workgroups = Some(<<(config.width + 7) \div 8,
                                                 (config.height + 7) \div 8, 1>>),
                           !.events = Append(@, "dispatch")]
          [] gpu.pc = "copy" ->
               [gpu EXCEPT !.pc = "submit", !.events = Append(@, "copy")]
          [] gpu.pc = "submit" ->
               [gpu EXCEPT !.pc = "map", !.submitted = TRUE,
                           !.events = Append(@, "submit")]
          [] gpu.pc = "map" ->
               [gpu EXCEPT !.pc = "read", !.map_requested = TRUE,
                           !.events = Append(@, "map_async")]
          [] gpu.pc = "poll" ->
               [gpu EXCEPT !.pc = "recv", !.events = Append(@, "wait")]
          [] gpu.pc = "recv" ->
               IF gpu.channel = Some("Ok")
               THEN [gpu EXCEPT !.pc = "read", !.events = Append(@, "map_ok")]
               ELSE [gpu EXCEPT !.pc = "returned", !.events = Append(@, "map_err"),
                                !.result = Some(Err("Failed to map buffer"))]
          [] gpu.pc = "read" ->
               [gpu EXCEPT !.pc = "returned", !.events = Append(@, "read"),
                           !.read_data = Some(gpu.staging),
                           !.result = Some(Ok([width |-> config.width,
                                               height |-> config.height,
                                               data |-> gpu.staging]))]
    /\ UNCHANGED <<pc, config, bvh, built_from, image_data, row_x, writes, traces,
                   prev_image, probe, loader_vars, image_vars>>

\* render from the command encoder on, one statement at a time:
\* dispatch_workgroups((width + 7) / 8, (height + 7) / 8, 1) in a compute pass,
\* copy_buffer_to_buffer(output, staging), queue.submit, map_async whose
\* callback sends the result down a channel, device.poll(Maintain::Wait) that
\* returns once the submitted work is done and the callback has run, recv of
\* the result (Err returns), get_mapped_range and Ok(Image::new(..)).
GpuHostStep ==
    /\ pc = "gpu"
    /\ gpu.pc \in {"encode", "copy", "submit", "map", "poll", "recv", "read"}
    /\ gpu.pc = "poll" => gpu.channel # None
    /\ gpu' =
        CASE gpu.pc = "encode" ->
               [gpu EXCEPT !.pc = "copy",
                           !.workgroups = Some(<<(config.width + 7) \div 8,
                                                 (config.height + 7) \div 8, 1>>),
                           !.events = Append(@, "dispatch")]
          [] gpu.pc = "copy" ->
               [gpu EXCEPT !.pc = "submit", !.events = Append(@, "copy")]
          [] gpu.pc = "submit" ->
               [gpu EXCEPT !.pc = "map", !.submitted = TRUE,
                           !.events = Append(@, "submit")]
          [] gpu.pc = "map" ->
               [gpu EXCEPT !.pc = "poll", !.map_requested = TRUE,
                           !.events = Append(@, "map_async")]
          [] gpu.pc = "poll" ->
               [gpu EXCEPT !.pc = "recv", !.events = Append(@, "wait")]
          [] gpu.pc = "recv" ->
               IF gpu.channel = Some("Ok")
               THEN [gpu EXCEPT !.pc = "read", !.events = Append(@, "map_ok")]
               ELSE [gpu EXCEPT !.pc = "returned", !.events = Append(@, "map_err"),
                                !.result = Some(Err("Failed to map buffer"))]
          [] gpu.pc = "read" ->
               [gpu EXCEPT !.pc = "returned", !.events = Append(@, "read"),
                           !.read_data = Some(gpu.staging),
                           !.result = Some(Ok([width |-> config.width,
                                               height |-> config.height,
                                               data |-> gpu.staging]))]
    /\ UNCHANGED <<pc, config, bvh, built_from, image_data, row_x, writes, traces,
                   prev_image, probe, loader_vars, image_vars>>

\* the device: it runs the compute pass of a submitted command buffer, then
\* the copy into the staging buffer, and answers a map request once the copy
\* is done, with success or with an error
GpuDeviceStep ==
    /\ pc = "gpu"
    /\ \/ /\ gpu.submitted
          /\ gpu.output = "unwritten"
          /\ gpu' = [gpu EXCEPT !.output = "pixels"]
       \/ /\ gpu.output = "pixels"
          /\ gpu.staging = "unwritten"
          /\ gpu' = [gpu EXCEPT !.staging = gpu.output]
       \/ /\ gpu.staging = "pixels"
          /\ gpu.map_requested
          /\ gpu.channel = None
          /\ \E answer \in {"Ok", "Err"} : gpu' = [gpu EXCEPT !.channel = Some(answer)]
    /\ UNCHANGED <<pc, config, bvh, built_from, image_data, row_x, writes, traces,
                   prev_image, probe, loader_vars, image_vars>>

NextGpu ==
    \/ GpuBackend_render
    \/ GPURenderer_render
    \/ GpuHostStep
    \/ GpuDeviceStep

GpuSpec == InitGpu /\ [][NextGpu]_vars

-----------------------------------------------------------------------------
(* C7.  Whenever intersect returns Some(I), for a sphere, a plane or a     *)
(* triangle, I.distance is strictly greater than 0; a ray whose origin     *)
(* lies on the surface (parametric distance 0) is a miss.                  *)
C7_HitDistancePositive ==
    probe.intersected =>
        \A i \in 1..Len(probe.hits) :
            IsSome(probe.hits[i]) => Unwrap(probe.hits[i]).distance > 0

(* C8.  For every plane hit, is_back_face is TRUE exactly when             *)
(* normal . ray.direction > 0.                                             *)
C8_PlaneBackFace ==
    probe.intersected =>
        \A i \in 1..Len(probe.hits) :
            (config.scene_objects[i].kind = "Plane" /\ IsSome(probe.hits[i])) =>
                (Unwrap(probe.hits[i]).is_back_face
                    <=> (Dot(config.scene_objects[i].normal,
                             probe.ray.direction) > 0))

\* the hits of a linear scan over all primitives, in array order
LinearScanHits(shapes, ray) == FilterMapIntersect(shapes, ray)

SeqRange(q) == { q[k] : k \in 1..Len(q) }

-----------------------------------------------------------------------------
(* Properties of RayTracer::new / RayTracer::render *)

Rendering == pc \in {"running", "done"}

Written(i) == Len(writes[i]) > 0

RowOf(i) == (i - 1) \div config.width

ColOf(i) == (i - 1) % config.width

\* the chain of find_color_recursive calls made for pixel i
CallsOf(i) == traces[i][1].calls

(* C1.  In every interleaving of the row workers each pixel index is       *)
(* written at most once, only by the worker of its own row, and when       *)
(* render has returned every index has been written exactly once.          *)
C1_UniqueWriter ==
    Rendering =>
        /\ \A i \in Pixels(config) :
               /\ Len(writes[i]) <= 1
               /\ \A k \in 1..Len(writes[i]) : writes[i][k] = RowOf(i)
        /\ pc = "done" => \A i \in Pixels(config) : Len(writes[i]) = 1

C1_Witness ==
    pc = "done" /\ config.width >= 2 /\ config.height >= 2

(* C2.  Whatever interleaving of the row workers led to it, the image a    *)
(* render returns holds at offset y*width+x the shader's value for         *)
(* (x, y, scene), and a second render of the same scene returns an image   *)
(* identical to the first.                                                 *)
C2_Deterministic ==
    /\ pc = "done" =>
           \A i \in Pixels(config) :
               image_data[i] = PixelColor(config, bvh, ColOf(i), RowOf(i))
    /\ (pc = "done" /\ IsSome(prev_image)) => image_data = Unwrap(prev_image)

C2_Witness ==
    /\ pc = "done" /\ IsSome(prev_image)
    /\ config.width >= 2 /\ config.height >= 2
    /\ \E i \in Pixels(config) : image_data[i] # 0

AllWritten == \A i \in Pixels(config) : Len(writes[i]) = 1

(* C3.  When render returns Ok(Image) all width*height pixels have been    *)
(* written, and under fair scheduling of the row workers a started render  *)
(* eventually returns.                                                     *)
C3_ReturnsComplete ==
    /\ [](pc = "done" => AllWritten)
    /\ (pc = "running") ~> (pc = "done")

C3_Witness ==
    pc = "done" /\ config.width * config.height >= 4 /\ AllWritten

(* C4.  The BVH and the node indices of the primitives are written only by *)
(* RayTracer::new, before any ray is traced; render never writes them, and *)
(* every traversal in render is given the primitive array the BVH was      *)
(* built from.                                                             *)
C4_BuiltBeforeTraversal ==
    /\ [](pc # "new" => config.scene_objects = built_from)
    /\ [][(bvh' # bvh \/ config' # config \/ built_from' # built_from)
            => (pc = "new" /\ traces = <<>>)]_vars

C4_Witness ==
    /\ pc = "done"
    /\ Len(config.scene_objects) >= 2
    /\ \E i \in 1..Len(config.scene_objects) :
           bh_node_index(config.scene_objects[i]) > 1
    /\ \E i \in Pixels(config) : IsSome(CallsOf(i)[1].hit)

(* C6.  With maxdepth = 1 no reflection ray is cast; a reflection ray is   *)
(* cast from a hit at depth d only when the hit's specular colour has a    *)
(* channel > 0 and d+1 < maxdepth; the chain of trace calls of a pixel has *)
(* at most maxdepth calls.                                                 *)
C6_ReflectionBounded ==
    Rendering =>
        \A i \in Pixels(config) :
            Written(i) =>
                /\ config.maxdepth = 1 =>
                       (Len(CallsOf(i)) = 1 /\ ~CallsOf(i)[1].reflected)
                /\ \A k \in 1..Len(CallsOf(i)) :
                       CallsOf(i)[k].reflected =>
                           /\ IsReflective(Unwrap(CallsOf(i)[k].hit))
                           /\ CallsOf(i)[k].depth + 1 < config.maxdepth
                /\ Len(CallsOf(i)) <= config.maxdepth

\* a candidate of the shadow ray whose hit S meets all conditions of a blocker
BlockerExists(light, H) ==
    LET shadow_ray == ShadowRay(light, H)
        cands == Traverse(bvh, shadow_ray, config.scene_objects)
    IN  \E c \in 1..Len(cands) :
            LET s == intersect(cands[c], shadow_ray)
            IN  /\ IsSome(s)
                /\ Unwrap(s).distance >= EPS
                /\ ~(H.is_back_face /\ Unwrap(s).is_back_face)
                /\ light.kind = "Point" =>
                       Unwrap(s).distance < Norm(VSub(light.position, H.point))

\* a candidate of the shadow ray is hit, yet the hit is not a blocker
NonBlockingHitExists(light, H) ==
    LET shadow_ray == ShadowRay(light, H)
        cands == Traverse(bvh, shadow_ray, config.scene_objects)
    IN  \E c \in 1..Len(cands) : IsSome(intersect(cands[c], shadow_ray))

(* C9.  For every hit H of a returned render and every light, the light's  *)
(* direct contribution is skipped iff some shadow-ray candidate has a hit  *)
(* S with S.distance >= 1e-6, not (H.is_back_face and S.is_back_face) and, *)
(* for a point light, S.distance smaller than the distance from H.point to *)
(* the light.                                                              *)
C9_ShadowRule ==
    pc = "done" =>
        \A i \in Pixels(config) :
            \A k \in 1..Len(CallsOf(i)) :
                IsSome(CallsOf(i)[k].hit) =>
                    \A l \in 1..Len(config.lights) :
                        CallsOf(i)[k].skipped[l]
                            <=> BlockerExists(config.lights[l],
                                              Unwrap(CallsOf(i)[k].hit))

\* one light is skipped, and a light is kept although its shadow ray hits
C9_Witness ==
    /\ pc = "done"
    /\ \E i \in Pixels(config) : \E k \in 1..Len(CallsOf(i)) :
           /\ IsSome(CallsOf(i)[k].hit)
           /\ \E l \in 1..Len(config.lights) : CallsOf(i)[k].skipped[l]
    /\ \E i \in Pixels(config) : \E k \in 1..Len(CallsOf(i)) :
           /\ IsSome(CallsOf(i)[k].hit)
           /\ \E l \in 1..Len(config.lights) :
                  /\ ~CallsOf(i)[k].skipped[l]
                  /\ NonBlockingHitExists(config.lights[l],
                                          Unwrap(CallsOf(i)[k].hit))

Clamped(c) == IF c < 0 THEN 0 ELSE IF c > ONE THEN ONE ELSE c

(* C10.  Every pixel produced by find_color is 0x00RRGGBB: the high byte   *)
(* is zero and each of R, G, B is the clamped channel scaled to 0..255,    *)
(* whatever colour the shader returned.                                    *)
C10_PackedPixel ==
    Rendering =>
        \A i \in Pixels(config) :
            Written(i) =>
                LET p == image_data[i]
                    color == traces[i][1].color
                    RGB == <<p \div 65536, (p \div 256) % 256, p % 256>>
                IN  /\ p < 16777216
                    /\ \A ch \in 1..3 :
                           /\ RGB[ch] \in 0..255
                           /\ RGB[ch] = RoundDiv(Clamped(color[ch]) * 255, ONE)

\* the shader returned a channel above 1.0 and another strictly inside (0,1)
C10_Witness ==
    /\ pc = "done"
    /\ \E i \in Pixels(config) :
           /\ \E ch \in 1..3 : traces[i][1].color[ch] > ONE
           /\ \E ch \in 1..3 : traces[i][1].color[ch] \in 1..(ONE - 1)

-----------------------------------------------------------------------------
(* C11.  pack_rgb and extract_rgb are inverse on 24-bit values: a pixel    *)
(* whose high byte is zero comes back unchanged from extract_rgb followed  *)
(* by pack_rgb, and channels r, g, b in 0..255 come back unchanged from    *)
(* pack_rgb followed by extract_rgb.                                       *)
C11_PackExtractInverse ==
    /\ (/\ codec.start = "pixel"
        /\ codec.pixel_back # None
        /\ Unwrap(codec.pixel) < 2 ^ 24) => codec.pixel_back = codec.pixel
    /\ (codec.start = "rgb" /\ codec.rgb_back # None) => codec.rgb_back = codec.rgb

\* 0x80FF01 has been unpacked to (128, 255, 1) and packed again
C11_Witness ==
    /\ codec.start = "pixel"
    /\ codec.pixel = Some(8453889)
    /\ codec.rgb = Some(<<128, 255, 1>>)
    /\ codec.pixel_back = Some(8453889)

-----------------------------------------------------------------------------
(* Claims about the scene-file loader.  A line has been handed to          *)
(* parse_line once line_no > 0, and line_read is the last such line.       *)

\* the keys that parse_line's match names
RecognisedDirectives ==
    { "size", "output", "camera", "ambient", "sphere", "tri", "plane", "point",
      "directional", "diffuse", "specular", "shininess", "maxdepth", "maxverts",
      "vertex" }

\* load_config_file has returned Err
ReturnedErr == pc = "error" /\ result # None /\ ~Unwrap(result).ok

\* load_config_file has returned Ok(config)
ReturnedOk == pc # "load" /\ result # None /\ Unwrap(result).ok

(* C12.  A line that is neither blank nor a comment and whose first token  *)
(* is not a recognised directive makes load_config_file return an error,   *)
(* also when the line consists of that single token only.                  *)
C12_UnknownDirectiveRejected ==
    (/\ line_no > 0
     /\ ~Skipped(line_read)
     /\ line_read[1].text \notin RecognisedDirectives) => ReturnedErr

(* C13.  In every Config that load_config_file returns, whatever the order *)
(* of the accepted directives (an `ambient` after a `diffuse` included),   *)
(* each primitive's diffuse colour plus the final ambient is at most 1 in  *)
(* every channel.                                                          *)
C13_DiffusePlusAmbient ==
    ReturnedOk =>
        \A i \in 1..Len(Unwrap(result).value.scene_objects) : \A ch \in 1..3 :
            Unwrap(result).value.scene_objects[i].diffuse_color[ch]
                + Unwrap(result).value.ambient[ch] <= ONE

(* C14.  While directives are accepted, the vertex pool never holds more   *)
(* vertices than the current maxverts; and a well-formed `vertex` line     *)
(* read when the pool already holds maxverts vertices is rejected with an  *)
(* error, the pool staying as it was.                                      *)
C14_PoolWithinMaxverts ==
    /\ [](pc # "error" => Len(parsed_config.vertices) <= config.maxverts)
    /\ [][(/\ pc = "load"
           /\ line_no' = line_no + 1
           /\ line_read'[1].text = "vertex"
           /\ Len(line_read') = 4
           /\ Len(parsed_config.vertices) = config.maxverts)
          => (/\ pc' = "error"
              /\ parsed_config'.vertices = parsed_config.vertices)]_vars

(* C15.  A line `tri i j k` adds a triangle only when i, j and k are all   *)
(* indices of vertices already in the pool when the line is read, and the  *)
(* triangle's vertices are the pool's values at that moment; otherwise the *)
(* line is a parse error and no primitive is added.                        *)
C15_TriangleIndices ==
    [][(/\ pc = "load"
        /\ line_no' = line_no + 1
        /\ line_read'[1].text = "tri"
        /\ Len(line_read') = 4)
       => \/ /\ pc' = "error"
             /\ config'.scene_objects = config.scene_objects
          \/ /\ pc' = "load"
             /\ \A n \in 2..4 :
                    /\ IsSome(line_read'[n].u32)
                    /\ Unwrap(line_read'[n].u32) < Len(parsed_config.vertices)
             /\ Len(config'.scene_objects) = Len(config.scene_objects) + 1
             /\ SubSeq(config'.scene_objects, 1, Len(config.scene_objects))
                    = config.scene_objects
             /\ LET t == config'.scene_objects[Len(config'.scene_objects)]
                IN  /\ t.kind = "Triangle"
                    /\ t.v0 = parsed_config.vertices[Unwrap(line_read'[2].u32) + 1]
                    /\ t.v1 = parsed_config.vertices[Unwrap(line_read'[3].u32) + 1]
                    /\ t.v2 = parsed_config.vertices[Unwrap(line_read'[4].u32) + 1]]_vars

\* `tri 0 1 0` has been read with two different vertices in the pool
C15_Witness ==
    /\ pc = "load"
    /\ line_no > 0
    /\ line_read[1].text = "tri"
    /\ Len(parsed_config.vertices) = 2
    /\ Len(config.scene_objects) = 1
    /\ config.scene_objects[1].kind = "Triangle"
    /\ config.scene_objects[1].v0 = parsed_config.vertices[1]
    /\ config.scene_objects[1].v1 = parsed_config.vertices[2]
    /\ config.scene_objects[1].v0 # config.scene_objects[1].v1

(* C16.  A sphere, triangle or plane carries the material that is current  *)
(* when its line is read: the values of the most recent accepted           *)
(* `diffuse`, `specular` and `shininess` lines before it, or the defaults  *)
(* (0,0,0), (0,0,0), 0 where there is none.  No later line changes a       *)
(* primitive that has been emitted.                                        *)
C16_MaterialAtEmission ==
    /\ (line_no = 0 =>
            /\ parsed_config.diffuse_color = ZERO
            /\ parsed_config.specular_color = ZERO
            /\ parsed_config.shininess = 0)
    /\ [][(pc = "load" /\ line_no' = line_no + 1 /\ pc' = "load")
          => /\ SubSeq(config'.scene_objects, 1, Len(config.scene_objects))
                    = config.scene_objects
             /\ Len(config'.scene_objects) > Len(config.scene_objects)
                    => LET s == config'.scene_objects[Len(config'.scene_objects)]
                       IN  /\ s.diffuse_color = parsed_config.diffuse_color
                           /\ s.specular_color = parsed_config.specular_color
                           /\ s.shininess = parsed_config.shininess
             /\ parsed_config'.diffuse_color =
                    IF Len(line_read') = 4 /\ line_read'[1].text = "diffuse"
                    THEN <<Unwrap(line_read'[2].f32), Unwrap(line_read'[3].f32),
                           Unwrap(line_read'[4].f32)>>
                    ELSE parsed_config.diffuse_color
             /\ parsed_config'.specular_color =
                    IF Len(line_read') = 4 /\ line_read'[1].text = "specular"
                    THEN <<Unwrap(line_read'[2].f32), Unwrap(line_read'[3].f32),
                           Unwrap(line_read'[4].f32)>>
                    ELSE parsed_config.specular_color
             /\ parsed_config'.shininess =
                    IF Len(line_read') = 2 /\ line_read'[1].text = "shininess"
                    THEN Unwrap(line_read'[2].f32)
                    ELSE parsed_config.shininess]_vars

\* a sphere emitted under `diffuse 0.5 0.5 0.5`, then `specular 1 1 1` read
C16_Witness ==
    /\ pc = "load"
    /\ Len(config.scene_objects) = 1
    /\ config.scene_objects[1].kind = "Sphere"
    /\ config.scene_objects[1].diffuse_color = <<ONE \div 2, ONE \div 2, ONE \div 2>>
    /\ config.scene_objects[1].specular_color = ZERO
    /\ parsed_config.specular_color = <<ONE, ONE, ONE>>
    /\ line_read[1].text = "specular"

(* C17.  load_config_file stops at the first line that parse_line rejects  *)
(* and returns Err with its message: no later line is processed, no Config *)
(* is returned, and so no RayTracer is built and no render starts from a   *)
(* scene file with an invalid line.                                        *)
C17_StopsAtFirstRejection ==
    /\ [](pc = "error" => (ReturnedErr /\ bvh = <<>> /\ image_data = <<>>))
    /\ [][/\ (/\ pc = "load"
              /\ line_no' = line_no + 1
              /\ ~parse_line(parsed_config, config, line_read').result.ok)
             => (/\ pc' = "error"
                 /\ result' = Some(parse_line(parsed_config, config, line_read').result))
          /\ pc # "error"]_vars

\* the second line of a file was rejected, with lines left to read
C17_Witness ==
    /\ ReturnedErr
    /\ line_no = 2
    /\ line_no < MaxLines
    /\ line_read[1].text = "tri"
    /\ Unwrap(result).message = "Triangle vertex index out of bounds"

(* C18.  Every Config that load_config_file returns has maxdepth >= 1,     *)
(* whatever directives were accepted (1 when there is no `maxdepth` line). *)
C18_MaxdepthAtLeastOne == ReturnedOk => Unwrap(result).value.maxdepth >= 1

(* C19.  A blank line, or a line that begins with `#`, returns Ok and      *)
(* leaves the Config under construction and the parser state (current      *)
(* material, vertex pool) unchanged.                                       *)
C19_BlankAndCommentIgnored ==
    [][(/\ pc = "load"
        /\ line_no' = line_no + 1
        /\ \/ \A n \in 1..Len(line_read') : line_read'[n].text = ""
           \/ line_read'[1].comment)
       => (/\ pc' = "load"
           /\ result' = None
           /\ config' = config
           /\ parsed_config' = parsed_config)]_vars

\* `# scene` has been read after a material line and a sphere
C19_Witness ==
    /\ pc = "load"
    /\ line_no = 3
    /\ line_read[1].comment
    /\ Len(config.scene_objects) = 1
    /\ parsed_config.diffuse_color # ZERO

-----------------------------------------------------------------------------
(* C20.  Image::compare returns Err("Images have different dimensions")    *)
(* whenever the two images differ in width or in height; otherwise it      *)
(* returns Ok with a difference image of the same width and height.        *)
C20_CompareDimensions ==
    compared # None =>
        IF img1.width # img2.width \/ img1.height # img2.height
        THEN /\ ~Unwrap(compared).ok
             /\ Unwrap(compared).message = "Images have different dimensions"
        ELSE /\ Unwrap(compared).ok
             /\ Unwrap(compared).value[2].width = img1.width
             /\ Unwrap(compared).value[2].height = img1.height

\* two images of the same width and data, of heights 1 and 2, were compared
C20_Witness ==
    /\ compared # None
    /\ ~Unwrap(compared).ok
    /\ img1.width = img2.width
    /\ img1.height = 1
    /\ img2.height = 2
    /\ img1.data = img2.data
    /\ Len(img1.data) = 2

-----------------------------------------------------------------------------
(* Claims about the difference image.  ChannelOf(p, k) is channel k of the *)
(* packed pixel p (1 red, 2 green, 3 blue); a position is compared when    *)
(* both images hold a pixel there.                                         *)

ChannelOf(p, k) == (p \div (256 ^ (3 - k))) % 256

Compared == 1..Min2(Len(img1.data), Len(img2.data))

Differs(i) ==
    \E k \in 1..3 : Abs(ChannelOf(img1.data[i], k) - ChannelOf(img2.data[i], k)) > 1

SameDimensions == img1.width = img2.width /\ img1.height = img2.height

C22_ChannelwiseDifference ==
    (compared # None /\ SameDimensions) =>
        \A i \in Compared :
            Unwrap(compared).value[2].data[i] # 0 =>
                \A k \in 1..3 :
                    ChannelOf(Unwrap(compared).value[2].data[i], k)
                        = Abs(ChannelOf(img1.data[i], k) - ChannelOf(img2.data[i], k))

\* 0x010101 against 0xFF0080: the difference pixel is 0xFE017F, where the
\* difference of the packed values would be 0xFDFF7F
C22_Witness ==
    /\ compared # None
    /\ SameDimensions
    /\ img1.data = <<65793>>
    /\ img2.data = <<16711808>>
    /\ Unwrap(compared).value[2].data = <<16646527>>


-----------------------------------------------------------------------------
(* The GPU drivers *)

\* the scene buffers of the bind group, once render has created it
Bound == Unwrap(gpu.bound)

(* C23.  Every scene-entity buffer bound for a dispatch holds at least one  *)
(* element, whatever the scene: also when the scene has no primitive of the *)
(* buffer's kind, or no light.                                              *)
C23_BuffersNeverEmpty ==
    IsSome(gpu.bound) => \A kind \in DOMAIN Bound : Len(Bound[kind]) >= 1

\* the number of primitives of a kind in the scene
CountOf(kind) ==
    Cardinality({ i \in 1..Len(config.scene_objects) :
                    config.scene_objects[i].kind = kind })

(* C24.  The entity counts written to the scene parameters are the numbers  *)
(* of spheres, planes, triangles and lights of the scene: a null element    *)
(* that pads an empty buffer is not counted.                                *)
C24_CountsAreRealEntities ==
    IsSome(gpu.counts) =>
        IF gpu.backend = "GpuBackend"
        THEN /\ Unwrap(gpu.counts).num_spheres = CountOf("Sphere")
             /\ Unwrap(gpu.counts).num_planes = CountOf("Plane")
             /\ Unwrap(gpu.counts).num_triangles = CountOf("Triangle")
             /\ Unwrap(gpu.counts).num_lights = Len(config.lights)
        ELSE /\ Unwrap(gpu.counts).sphere_count = CountOf("Sphere")
             /\ Unwrap(gpu.counts).light_count = Len(config.lights)


\* ceil(n / 8): the least number of groups of 8 that hold n
CeilDiv8(n) == CHOOSE k \in 0..n : 8 * k >= n /\ 8 * (k - 1) < n

\* the global ids of the invocations of a dispatch of wg workgroups of 8x8
Invocations(wg) == (0..(8 * wg[1] - 1)) \X (0..(8 * wg[2] - 1))

(* C25.  The dispatch uses ceil(width/8) x ceil(height/8) x 1 workgroups of *)
(* 8x8 invocations, the output buffer holds exactly width*height pixels of  *)
(* 32 bits, and every pixel (x, y) of the image is covered by exactly one   *)
(* invocation, for every width > 0 and height > 0.                          *)
C25_DispatchCoversImage ==
    IsSome(gpu.workgroups) =>
        /\ Unwrap(gpu.workgroups) =
               <<CeilDiv8(config.width), CeilDiv8(config.height), 1>>
        /\ Unwrap(gpu.output_buffer_size) % 4 = 0
        /\ Unwrap(gpu.output_buffer_size) \div 4 = config.width * config.height
        /\ \A x \in 0..(config.width - 1), y \in 0..(config.height - 1) :
              Cardinality({ gid \in Invocations(Unwrap(gpu.workgroups)) :
                              <<x, y>> \in cs_main(gid, config.width, config.height) }) = 1


\* what the host does in a render that reads pixels, and in one whose map
\* request is answered with an error
ReadOrder == <<"dispatch", "copy", "submit", "map_async", "wait", "map_ok", "read">>

MapErrOrder == <<"dispatch", "copy", "submit", "map_async", "wait", "map_err">>

StartOf(s, t) == Len(s) <= Len(t) /\ s = SubSeq(t, 1, Len(s))

(* C26.  The host reads pixel data only after the work has completed: it    *)
(* dispatches, copies the output buffer to the staging buffer, submits,     *)
(* asks for the map, waits for the device, gets a successful map result and *)
(* only then reads the mapped range, which by then holds the pixels the     *)
(* device wrote.  If the map result is an error, render returns Err and     *)
(* reads nothing.                                                           *)
C26_ReadAfterCompletion ==
    /\ StartOf(gpu.events, ReadOrder) \/ StartOf(gpu.events, MapErrOrder)
    /\ IsSome(gpu.read_data) =>
          /\ gpu.channel = Some("Ok")
          /\ gpu.output = "pixels"
          /\ Unwrap(gpu.read_data) = "pixels"
    /\ (gpu.pc = "returned" /\ gpu.channel = Some("Err")) =>
          /\ ~Unwrap(gpu.result).ok
          /\ gpu.read_data = None

\* a render that went through all seven steps and returned the image
C26_Witness ==
    /\ gpu.pc = "returned"
    /\ gpu.events = ReadOrder
    /\ Unwrap(gpu.result).ok
    /\ Unwrap(gpu.read_data) = "pixels"


-----------------------------------------------------------------------------
(* Renders of scenes without lights *)

\* RayTracer::new and render, as in Spec, over scenes that have no light:
\* nothing, a mirror that fills the view, a matte sphere the outer rays
\* miss, and the sphere in front of a glossy plane
InitNoLight ==
    LET LoneSphere == <<MatteSphere(P(0, 0, -3), 1)>>
        Unlit == { NoObjects, OneMirror, LoneSphere, SphereOverPlane }
    IN  /\ pc = "new"
        /\ config \in { MakeConfig(w, h, cam, amb, md, objects, NoLights) :
                          w \in 1..MaxWidth, h \in 1..MaxHeight, cam \in Cameras,
                          amb \in Ambients, md \in 0..MaxDepth, objects \in Unlit }
        /\ bvh = <<>>
        /\ built_from = <<>>
        /\ image_data = <<>>
        /\ row_x = <<>>
        /\ writes = <<>>
        /\ traces = <<>>
        /\ prev_image = None
        /\ probe = IdleProbe
        /\ IdleLoader
        /\ IdleImages
        /\ gpu = None

NoLightSpec == InitNoLight /\ [][Next]_vars

\* the primary ray of pixel i hit a primitive
PrimaryHit(i) == IsSome(CallsOf(i)[1].hit)

(* C27.  In a scene with no lights a pixel whose primary ray hits nothing   *)
(* is black, and with maxdepth = 1 a pixel whose primary ray hits a         *)
(* primitive is exactly the packed ambient colour, whatever the diffuse     *)
(* colour of the primitive hit.                                             *)
C27_AmbientOnly ==
    (Rendering /\ config.lights = <<>>) =>
        \A i \in Pixels(config) :
            Written(i) =>
                /\ ~PrimaryHit(i) => image_data[i] = 0
                /\ (PrimaryHit(i) /\ config.maxdepth = 1) =>
                       image_data[i] = PackColor(config.ambient)

\* a finished render with maxdepth 1 of a scene without lights in which a
\* primary ray hit a primitive whose diffuse colour is not white
C27_Witness ==
    /\ pc = "done"
    /\ config.lights = <<>>
    /\ config.maxdepth = 1
    /\ \E i \in Pixels(config) :
          /\ Written(i)
          /\ PrimaryHit(i)
          /\ Unwrap(CallsOf(i)[1].hit).diffuse_color # <<ONE, ONE, ONE>>
          /\ image_data[i] = PackColor(config.ambient)
          /\ image_data[i] # 0


(* C28.  In a render with maxdepth >= 1 every call of find_color_recursive  *)
(* has a depth argument of at most maxdepth - 1, so the guard               *)
(* `depth > maxdepth` that returns black is never taken.                    *)
C28_DepthBelowMaxdepth ==
    (Rendering /\ config.maxdepth >= 1) =>
        \A i \in Pixels(config) :
            Written(i) =>
                \A k \in 1..Len(CallsOf(i)) :
                    /\ CallsOf(i)[k].depth <= config.maxdepth - 1
                    /\ ~CallsOf(i)[k].guarded

\* a written pixel whose chain of reflections went as deep as maxdepth - 1
C28_Witness ==
    /\ Rendering
    /\ config.maxdepth >= 2
    /\ \E i \in Pixels(config) :
          /\ Written(i)
          /\ Len(CallsOf(i)) = config.maxdepth
          /\ CallsOf(i)[Len(CallsOf(i))].depth = config.maxdepth - 1
          /\ CallsOf(i)[Len(CallsOf(i)) - 1].reflected


(* C29.  When a `diffuse`, `specular` or `shininess` directive is rejected, *)
(* the current material of the parser is what it was before the directive:  *)
(* the rejected value is not stored in the ParsedConfigState.               *)
C29_RejectedMaterialNotStored ==
    [][(/\ pc = "load"
        /\ pc' = "error"
        /\ Len(line_read') >= 2
        /\ line_read'[1].text \in {"diffuse", "specular", "shininess"})
       => (/\ parsed_config'.diffuse_color = parsed_config.diffuse_color
           /\ parsed_config'.specular_color = parsed_config.specular_color
           /\ parsed_config'.shininess = parsed_config.shininess)]_vars


-----------------------------------------------------------------------------
(* One ParsedConfigState used for several loads *)

\* the longest file loaded, in lines, and the number of loads
MaxFileLines == 2

MaxLoads == 2

\* load_config_file on a parser state self, for a file given as its lines:
\* the loop over the lines from the Config cfg built at the start, the first
\* rejected line returning its Err; Result and the parser state afterwards
RECURSIVE load_config_file(_, _, _)
load_config_file(self, cfg, file) ==
    IF file = <<>> THEN [result |-> Ok(cfg), self |-> self]
    ELSE IF ~parse_line(self, cfg, Head(file)).result.ok
         THEN [result |-> parse_line(self, cfg, Head(file)).result,
               self |-> parse_line(self, cfg, Head(file)).self]
    ELSE load_config_file(parse_line(self, cfg, Head(file)).self,
                          parse_line(self, cfg, Head(file)).config, Tail(file))

\* state.load_config_file(path) on the parser state at hand, which is fresh
\* for the first load and the one the load before left behind afterwards.
\* The files are made of the lines that read or write the parser state.
LoadFile ==
    /\ pc = "load"
    /\ Len(loaded) < MaxLoads
    /\ \E n \in 1..MaxFileLines :
         \E file \in [1..n -> { l \in Lines :
                                  /\ Len(l) >= 2
                                  /\ l[1].text \in {"diffuse", "specular", "shininess",
                                                    "sphere", "plane", "maxverts",
                                                    "vertex", "tri"} }] :
            /\ loaded' = Append(loaded, file)
            /\ result' = Some(load_config_file(parsed_config, DefaultConfig, file).result)
            /\ parsed_config' = load_config_file(parsed_config, DefaultConfig, file).self
            /\ line_read' = file[n]
            /\ line_no' = n
    /\ UNCHANGED <<pc, config, bvh, built_from, image_data, row_x, writes, traces,
                   prev_image, probe, image_vars, gpu>>

ReloadSpec == InitLoad /\ [][LoadFile]_vars

(* C30.  What load_config_file returns depends only on the contents of the  *)
(* file: a ParsedConfigState that has already loaded another file, with or  *)
(* without success, returns what a fresh ParsedConfigState returns for the  *)
(* same file.                                                               *)
C30_LoadDependsOnFileOnly ==
    loaded # <<>> =>
        Unwrap(result) =
            load_config_file(ParsedConfigStateNew, DefaultConfig,
                             loaded[Len(loaded)]).result

====
